---- MODULE Spec2Model ----
(***************************************************************************)
(* A model of rust-git: the loose object store and name resolution         *)
(* (object.rs), the tree and KVLM codecs (tree.rs, commit.rs), the staging *)
(* index codec (index.rs) and the ignore matcher (ignore.rs).  Byte        *)
(* strings are sequences of byte values, a Result is a record whose kind   *)
(* is "ok", "err" (an Err returned to the caller) or "panic" (an           *)
(* assertion, unwrap or slice failure that aborts).                        *)
(***************************************************************************)
EXTENDS Naturals, Integers, Sequences, FiniteSets, TLC

VARIABLES
    objects,    \* the loose object files: id (40 hex bytes) -> file
    objdirs,    \* the two-hex-digit directories that exist under objects/
    storeOp,    \* the last object store call and what it returned
    nops,       \* the number of object store calls made so far
    indexFile,  \* the file "index" of the control directory
    indexOp,    \* the last index call, the index last written, the result
    treeOp,     \* the last tree codec call: its input and its result
    kvOp,       \* the last KVLM codec call: its input and its result
    refs,       \* the reference files: path -> the id ref_resolve gives
    findOp,     \* the last name resolution call and what it returned
    ignoreOp,   \* the last ignore call: its input and its result
    worktree,   \* the files of the worktree: relative path -> times and content
    cmdOp       \* the last status or log call: its input, output and result

storeVars == <<objects, objdirs, storeOp, nops>>
indexVars == <<indexFile, indexOp>>
codecVars == <<treeOp, kvOp>>
refVars == <<refs, findOp>>
ignoreVars == <<ignoreOp>>
cmdVars == <<worktree, cmdOp>>

vars == <<objects, objdirs, storeOp, nops, indexFile, indexOp, treeOp, kvOp,
          refs, findOp, ignoreOp, worktree, cmdOp>>

(***************************************************************************)
(* Bounds of the model.                                                    *)
(***************************************************************************)
MaxData == 2
MaxOps == 2

(***************************************************************************)
(* Bytes.                                                                  *)
(***************************************************************************)
NUL == 0
LF == 10
SP == 32

S_blob == <<98, 108, 111, 98>>
S_tree == <<116, 114, 101, 101>>
S_commit == <<99, 111, 109, 109, 105, 116>>
S_tag == <<116, 97, 103>>
S_blub == <<98, 108, 117, 98>>

Front(s) == SubSeq(s, 1, Len(s) - 1)
Last(s) == s[Len(s)]

\* Rust's s[a..b] on a slice, with 0-based a and b: the caller guards a <= b <= len.
Slice(s, a, b) == SubSeq(s, a + 1, b)

\* iter().position(|&b| b == c) from 0-based offset start: the 0-based offset
\* relative to start of the first c, or -1 for None.
Position(s, start, c) ==
    IF \E i \in (start + 1)..Len(s) : s[i] = c
    THEN (CHOOSE i \in (start + 1)..Len(s) :
              s[i] = c /\ \A j \in (start + 1)..(i - 1) : s[j] # c) - 1 - start
    ELSE -1

StartsWith(s, p) == Len(p) <= Len(s) /\ SubSeq(s, 1, Len(p)) = p

Repeat(c, n) == [i \in 1..n |-> c]

\* The decimal rendering of a usize ("{}" in format!).
RECURSIVE DecStr(_)
DecStr(n) == IF n < 10 THEN <<48 + n>> ELSE DecStr(n \div 10) \o <<48 + (n % 10)>>

IsDigit(c) == c >= 48 /\ c <= 57

RECURSIVE DigitsValue(_)
DigitsValue(s) == IF s = <<>> THEN 0 ELSE DigitsValue(Front(s)) * 10 + (Last(s) - 48)

\* str::parse::<usize>: an optional '+', then one or more decimal digits.
ParseUsize(s) ==
    LET body == IF s # <<>> /\ s[1] = 43 THEN Tail(s) ELSE s
    IN  IF body # <<>> /\ \A i \in 1..Len(body) : IsDigit(body[i])
        THEN [ok |-> TRUE, val |-> DigitsValue(body)]
        ELSE [ok |-> FALSE, val |-> 0]

HexDigit(d) == IF d < 10 THEN 48 + d ELSE 87 + d

(***************************************************************************)
(* SHA-1, abstracted: a deterministic digest of the byte string rendered   *)
(* as 40 lowercase hex digits.  The digest fills the leading digits.       *)
(***************************************************************************)
RECURSIVE DigestRange(_, _, _)
DigestRange(s, lo, hi) ==
    IF lo > hi THEN 7
    ELSE IF lo = hi THEN ((s[lo] + 1) * (lo * lo * 7 + lo * 13 + 1)) % 1048576
    ELSE LET mid == (lo + hi) \div 2
         IN  (DigestRange(s, lo, mid) * 31 + DigestRange(s, mid + 1, hi)) % 1048576

Digest(s) == DigestRange(s, 1, Len(s))

Sha1Hex(s) ==
    LET d == Digest(s)
    IN  <<HexDigit((d \div 65536) % 16), HexDigit((d \div 4096) % 16),
          HexDigit((d \div 256) % 16), HexDigit((d \div 16) % 16),
          HexDigit(d % 16)>> \o Repeat(48, 35)

\* hex::encode: two lowercase hex digits per byte.  format!("{:040x}",
\* BigUint::from_bytes_be(b)) of 20 bytes gives the same 40 digits.
HexEncode(b) ==
    [i \in 1..(2 * Len(b)) |->
        IF i % 2 = 1 THEN HexDigit(b[(i + 1) \div 2] \div 16) ELSE HexDigit(b[i \div 2] % 16)]

IsHexDigit(c) == IsDigit(c) \/ (c >= 97 /\ c <= 102) \/ (c >= 65 /\ c <= 70)

HexValue(c) == IF IsDigit(c) THEN c - 48 ELSE IF c >= 97 THEN c - 87 ELSE c - 55

IsHex(h) == Len(h) % 2 = 0 /\ \A i \in 1..Len(h) : IsHexDigit(h[i])

\* hex::decode of a string IsHex accepts.
HexDecode(h) ==
    [i \in 1..(Len(h) \div 2) |-> HexValue(h[2 * i - 1]) * 16 + HexValue(h[2 * i])]

\* String::from_utf8 on the byte strings of the model: ASCII passes, a byte
\* above 127 standing alone does not.
IsUtf8(b) == \A i \in 1..Len(b) : b[i] < 128

\* Byte-wise lexicographic order of two strings (Ord for String).
RECURSIVE LexLess(_, _)
LexLess(a, b) ==
    IF b = <<>> THEN FALSE
    ELSE IF a = <<>> THEN TRUE
    ELSE IF a[1] # b[1] THEN a[1] < b[1]
    ELSE LexLess(Tail(a), Tail(b))

(***************************************************************************)
(* tree.rs                                                                 *)
(***************************************************************************)
TreeLeaf(mode, path, sha) == [mode |-> mode, path |-> path, sha |-> sha]

Ok(v) == [kind |-> "ok", val |-> v, err |-> ""]
Err(e) == [kind |-> "err", val |-> <<>>, err |-> e]
Panic(e) == [kind |-> "panic", val |-> <<>>, err |-> e]

\* tree_parse_one: Ok(<<sha_end, leaf>>), an Err, or the assertion's panic.
tree_parse_one(raw, start) ==
    LET spc_rel == Position(raw, start, SP)
        spc == spc_rel + start
        m == Slice(raw, start, spc)
        mode == IF Len(m) = 5 THEN <<48>> \o m ELSE m
        null_rel == Position(raw, spc, NUL)
        null_pos == null_rel + spc
        path == Slice(raw, spc + 1, null_pos)
        sha_start == null_pos + 1
        sha_end == sha_start + 20
    IN  IF spc_rel = -1 THEN Err("Malformed tree: cannot find space")
        ELSE IF ~(spc - start = 5 \/ spc - start = 6) THEN Panic("assertion failed")
        ELSE IF null_rel = -1 THEN Err("Malformed tree: cannot find null after path")
        ELSE IF ~IsUtf8(path) THEN Err("Invalid UTF-8 in tree path")
        ELSE IF sha_end > Len(raw) THEN Err("Malformed tree: SHA truncated")
        ELSE Ok(<<sha_end, TreeLeaf(mode, path, HexEncode(Slice(raw, sha_start, sha_end)))>>)

RECURSIVE tree_parse_from(_, _, _)
tree_parse_from(raw, pos, res) ==
    IF pos < Len(raw)
    THEN LET one == tree_parse_one(raw, pos)
         IN  IF one.kind # "ok" THEN one
             ELSE tree_parse_from(raw, one.val[1], Append(res, one.val[2]))
    ELSE Ok(res)

tree_parse(raw) == tree_parse_from(raw, 0, <<>>)

\* Tree::deserialize: an Err of tree_parse becomes the empty tree.
TreeDeserialize(data) ==
    LET r == tree_parse(data)
    IN  IF r.kind = "err" THEN Ok(<<>>) ELSE r

\* The closure of sort_by_key: the path, with '/' pushed when the mode
\* starts with "10".
SortKeyModePrefix == <<49, 48>>

tree_sort_key(leaf) ==
    IF StartsWith(leaf.mode, SortKeyModePrefix) THEN leaf.path \o <<47>> ELSE leaf.path

\* sort_by_key is a stable sort: an element goes after every element whose key
\* is not greater.
RECURSIVE InsertByKey(_, _)
InsertByKey(sorted, leaf) ==
    IF sorted = <<>> THEN <<leaf>>
    ELSE IF LexLess(tree_sort_key(leaf), tree_sort_key(sorted[1]))
         THEN <<leaf>> \o sorted
         ELSE <<sorted[1]>> \o InsertByKey(Tail(sorted), leaf)

RECURSIVE SortByKey(_)
SortByKey(items) ==
    IF items = <<>> THEN <<>>
    ELSE InsertByKey(SortByKey(Front(items)), Last(items))

RECURSIVE tree_emit(_)
tree_emit(items) ==
    IF items = <<>> THEN <<>>
    ELSE items[1].mode \o <<SP>> \o items[1].path \o <<NUL>>
             \o HexDecode(items[1].sha) \o tree_emit(Tail(items))

\* tree_serialize: panics (expect) on a leaf whose sha is not hex.
tree_serialize(items) ==
    IF \E i \in 1..Len(items) : ~IsHex(items[i].sha)
    THEN Panic("Invalid SHA in tree leaf")
    ELSE Ok(tree_emit(SortByKey(items)))

(***************************************************************************)
(* commit.rs                                                               *)
(***************************************************************************)
NoKey == [some |-> FALSE, k |-> <<>>]
SomeKey(k) == [some |-> TRUE, k |-> k]

KvlmHas(dict, key) == \E i \in 1..Len(dict) : dict[i].key = key
KvlmIdx(dict, key) == CHOOSE i \in 1..Len(dict) : dict[i].key = key

\* IndexMap::insert: replaces the value of a present key in place.
KvlmInsert(dict, key, vals) ==
    IF KvlmHas(dict, key)
    THEN [dict EXCEPT ![KvlmIdx(dict, key)].vals = vals]
    ELSE Append(dict, [key |-> key, vals |-> vals])

\* entry(key).and_modify(|v| v.push(value)).or_insert(vec![value])
KvlmPush(dict, key, value) ==
    IF KvlmHas(dict, key)
    THEN [dict EXCEPT ![KvlmIdx(dict, key)].vals = Append(@, value)]
    ELSE Append(dict, [key |-> key, vals |-> <<value>>])

RECURSIVE clo_from(_, _)
clo_from(value, i) ==
    IF i < Len(value)
    THEN IF value[i + 1] = LF
         THEN IF i + 1 < Len(value) /\ value[i + 2] = SP
              THEN <<LF>> \o clo_from(value, i + 2)
              ELSE <<LF>> \o clo_from(value, i + 1)
         ELSE <<value[i + 1]>> \o clo_from(value, i + 1)
    ELSE <<>>

\* A fold that removes nothing.
continuation_line_keep(value) == value

continuation_line_optmize(value) == clo_from(value, 0)

\* The inner loop of kvlm_parse: the end of the value that starts at the
\* newline end.
RECURSIVE kvlm_value_end(_, _)
kvlm_value_end(raw, end) ==
    IF end + 1 >= Len(raw) THEN end
    ELSE IF raw[end + 2] # SP THEN end
    ELSE LET next_nl_rel == Position(raw, end + 1, LF)
         IN  IF next_nl_rel # -1
             THEN kvlm_value_end(raw, end + 1 + next_nl_rel)
             ELSE Len(raw)

RECURSIVE kvlm_parse_from(_, _, _)
kvlm_parse_from(raw, pos, dict) ==
    IF pos < Len(raw)
    THEN LET spc_rel == Position(raw, pos, SP)
             nl_rel == Position(raw, pos, LF)
             msgBranch == spc_rel = -1 \/ (nl_rel # -1 /\ nl_rel < spc_rel)
             dict1 == IF msgBranch
                      THEN KvlmInsert(dict, NoKey, <<Slice(raw, pos + 1, Len(raw))>>)
                      ELSE dict
             spc == pos + spc_rel
             nl == pos + nl_rel
             end == kvlm_value_end(raw, nl)
             value == continuation_line_optmize(Slice(raw, spc + 1, end))
         IN  IF msgBranch /\ spc_rel # nl_rel THEN Panic("assertion left == right failed")
             ELSE IF spc_rel = -1 THEN Panic("called Option::unwrap() on a None value")
             ELSE IF nl_rel = -1 THEN Panic("called Option::unwrap() on a None value")
             ELSE kvlm_parse_from(raw, end + 1,
                                  KvlmPush(dict1, SomeKey(Slice(raw, pos, spc)), value))
    ELSE Ok(dict)

kvlm_parse(raw) == kvlm_parse_from(raw, 0, <<>>)

\* The inner while loop of kvlm_serialize: a space after each newline.
RECURSIVE kvlm_escape(_)
kvlm_escape(value) ==
    IF value = <<>> THEN <<>>
    ELSE IF value[1] = LF THEN <<LF, SP>> \o kvlm_escape(Tail(value))
    ELSE <<value[1]>> \o kvlm_escape(Tail(value))

RECURSIVE kvlm_emit_values(_, _)
kvlm_emit_values(key, values) ==
    IF values = <<>> THEN <<>>
    ELSE key \o <<SP>> \o kvlm_escape(values[1]) \o <<LF>>
             \o kvlm_emit_values(key, Tail(values))

\* A serializer that writes the message entry where the map holds it.
kvlm_skip_none(key) == FALSE

\* if key_opt.is_none() { continue; }
kvlm_skip_key(key) == ~key.some

RECURSIVE kvlm_emit_headers(_)
kvlm_emit_headers(kvlm) ==
    IF kvlm = <<>> THEN <<>>
    ELSE (IF kvlm_skip_key(kvlm[1].key) THEN <<>>
          ELSE kvlm_emit_values(kvlm[1].key.k, kvlm[1].vals))
             \o kvlm_emit_headers(Tail(kvlm))

\* kvlm_serialize; msgs[0] panics on an empty message list.
kvlm_serialize(kvlm) ==
    IF KvlmHas(kvlm, NoKey) /\ kvlm[KvlmIdx(kvlm, NoKey)].vals = <<>>
    THEN Panic("index out of bounds")
    ELSE Ok(kvlm_emit_headers(kvlm) \o <<LF>>
                \o (IF KvlmHas(kvlm, NoKey) THEN kvlm[KvlmIdx(kvlm, NoKey)].vals[1]
                    ELSE <<>>))

(***************************************************************************)
(* index.rs                                                                *)
(***************************************************************************)
\* u32::to_be_bytes, u16::to_be_bytes and from_be_bytes.  The model's values
\* stay below 2^31.
BE32(n) == <<(n \div 16777216) % 256, (n \div 65536) % 256, (n \div 256) % 256, n % 256>>
BE16(n) == <<(n \div 256) % 256, n % 256>>
FromBE32(b) == ((b[1] * 256 + b[2]) * 256 + b[3]) * 256 + b[4]
FromBE16(b) == b[1] * 256 + b[2]

RECURSIVE BitAnd(_, _)
BitAnd(a, b) ==
    IF a = 0 \/ b = 0 THEN 0
    ELSE (a % 2) * (b % 2) + 2 * BitAnd(a \div 2, b \div 2)

RECURSIVE BitOr(_, _)
BitOr(a, b) ==
    IF a = 0 THEN b
    ELSE IF b = 0 THEN a
    ELSE (IF a % 2 = 1 \/ b % 2 = 1 THEN 1 ELSE 0) + 2 * BitOr(a \div 2, b \div 2)

\* The name length above which the flags hold the sentinel.
NameLenSentinel == 4095
FlagAssumeValid == 32768
FlagExtended == 16384
FlagStageMask == 12288
ModePermsMask == 511

S_DIRC == <<68, 73, 82, 67>>

\* The default a derived Default gives: version 0.
IndexDefaultDerived == [version |-> 0, entries |-> <<>>]

\* Index::default()
IndexDefault == [version |-> 2, entries |-> <<>>]

\* The flags word index_write packs for an entry.
index_write_flags(entry) ==
    LET flag_assume_valid == IF entry.flag_assume_valid THEN FlagAssumeValid ELSE 0
        bytes_len == Len(entry.name)
        name_length == IF bytes_len >= NameLenSentinel THEN NameLenSentinel ELSE bytes_len
    IN  BitOr(BitOr(flag_assume_valid, entry.flag_stage), name_length)

\* The zero bytes index_write adds once the running offset is idx.
index_write_pad(idx) == (8 - (idx % 8)) % 8

\* The ten integer fields index_write emits before the sha.
index_entry_fixed(entry) ==
    BE32(entry.ctime[1]) \o BE32(entry.ctime[2])
        \o BE32(entry.mtime[1]) \o BE32(entry.mtime[2])
        \o BE32(entry.dev) \o BE32(entry.ino)
        \o BE32(BitOr(entry.mode_type * 4096, entry.mode_perms))
        \o BE32(entry.uid) \o BE32(entry.gid) \o BE32(entry.fsize)

\* The bytes of one entry up to and including the NUL after the name.
index_entry_bytes(entry) ==
    index_entry_fixed(entry) \o HexDecode(entry.sha)
        \o BE16(index_write_flags(entry)) \o entry.name \o <<NUL>>

\* The loop of index_write from entry i on: the bytes in the file and how the
\* call ends.  An Err leaves what was written before it in the file.
RECURSIVE index_write_from(_, _, _, _)
index_write_from(entries, i, idx, out) ==
    IF i > Len(entries) THEN [kind |-> "ok", err |-> "", bytes |-> out, idx |-> idx]
    ELSE LET entry == entries[i]
             fixed == index_entry_fixed(entry)
             idx1 == idx + 62 + Len(entry.name) + 1
             pad == index_write_pad(idx1)
         IN  IF Len(entry.sha) < 32
             THEN [kind |-> "panic", err |-> "byte index 32 is out of bounds",
                   bytes |-> out \o fixed, idx |-> idx]
             ELSE IF ~IsHex(entry.sha)
             THEN [kind |-> "err", err |-> "hex", bytes |-> out \o fixed, idx |-> idx]
             ELSE IF Len(entry.sha) # 40
             THEN [kind |-> "err", err |-> "Invalid SHA length",
                   bytes |-> out \o fixed, idx |-> idx]
             ELSE index_write_from(entries, i + 1, idx1 + pad,
                                   out \o index_entry_bytes(entry) \o Repeat(0, pad))

index_write(index) ==
    index_write_from(index.entries, 1, 12,
                     S_DIRC \o BE32(index.version) \o BE32(Len(index.entries)))

\* raw[a..b].try_into()? into [u8; 4]: an Err unless the slice is 4 bytes long.
TryInto4(raw, a, b) ==
    IF b - a = 4 THEN Ok(FromBE32(Slice(raw, a, b))) ELSE Err("could not convert slice to array")

\* The test index_read applies to the mode type of an entry.
index_mode_type_rejected(mode_type) == mode_type # 8 \/ mode_type # 10 \/ mode_type # 14

index_read_align(idx) == IF idx % 8 = 0 THEN idx ELSE idx + (8 - (idx % 8))

\* The offset of the first NUL at or after idx, or -1.
FirstNul(raw, idx) ==
    LET S == {i \in (idx + 1)..Len(raw) : raw[i] = NUL}
    IN  IF S = {} THEN -1 ELSE (CHOOSE i \in S : \A j \in S : i <= j) - 1

\* The loop of index_read: n entries left to read from offset idx.
RECURSIVE index_read_from(_, _, _, _)
index_read_from(raw, n, idx, entries) ==
    IF n = 0 THEN [kind |-> "ok", err |-> "", entries |-> entries, idx |-> idx]
    ELSE IF idx + 62 > Len(raw)
    THEN [kind |-> "err", err |-> "Index entry truncated", entries |-> <<>>, idx |-> idx]
    ELSE
    LET unused == TryInto4(raw, idx + 24, idx + 26)
        mode == FromBE16(Slice(raw, idx + 26, idx + 28))
        mode_type == mode \div 4096
        flags == FromBE16(Slice(raw, idx + 60, idx + 62))
        flag_extended == BitAnd(flags, FlagExtended) # 0
        name_length == BitAnd(flags, NameLenSentinel)
        idx1 == idx + 62
        short == name_length < NameLenSentinel
        null_idx == FirstNul(raw, idx1)
        name_end == IF short THEN idx1 + name_length ELSE null_idx
        name == Slice(raw, idx1, name_end)
        entry == [ctime |-> <<FromBE32(Slice(raw, idx, idx + 4)),
                              FromBE32(Slice(raw, idx + 4, idx + 8))>>,
                  mtime |-> <<FromBE32(Slice(raw, idx + 8, idx + 12)),
                              FromBE32(Slice(raw, idx + 12, idx + 16))>>,
                  dev |-> FromBE32(Slice(raw, idx + 16, idx + 20)),
                  ino |-> FromBE32(Slice(raw, idx + 20, idx + 24)),
                  mode_type |-> mode_type,
                  mode_perms |-> BitAnd(mode, ModePermsMask),
                  uid |-> FromBE32(Slice(raw, idx + 28, idx + 32)),
                  gid |-> FromBE32(Slice(raw, idx + 32, idx + 36)),
                  fsize |-> FromBE32(Slice(raw, idx + 36, idx + 40)),
                  sha |-> HexEncode(Slice(raw, idx + 40, idx + 60)),
                  flag_assume_valid |-> BitAnd(flags, FlagAssumeValid) # 0,
                  flag_stage |-> BitAnd(flags, FlagStageMask),
                  name |-> name]
        fail(e) == [kind |-> "err", err |-> e, entries |-> <<>>, idx |-> idx]
    IN  IF unused.kind # "ok" THEN fail(unused.err)
        ELSE IF unused.val # 0 THEN fail("Unsed field non-zero")
        ELSE IF index_mode_type_rejected(mode_type) THEN fail("Invalid mode type")
        ELSE IF ~flag_extended THEN fail("Extended flag not support")
        ELSE IF short /\ (idx1 + name_length >= Len(raw) \/ raw[idx1 + name_length + 1] # NUL)
        THEN fail("Invalid name format")
        ELSE IF ~short /\ null_idx = -1
        THEN fail("No null terminator for long name in index")
        ELSE IF ~IsUtf8(name) THEN fail("invalid utf-8")
        ELSE index_read_from(raw, n - 1, index_read_align(name_end + 1),
                             Append(entries, entry))

NoIndex == [version |-> 0, entries |-> <<>>]

\* index_read of the index file f: f.exists tells whether the file is there,
\* f.bytes is its content.
index_read(f) ==
    LET raw == f.bytes
        bad(e) == [kind |-> "err", err |-> e, index |-> NoIndex, idx |-> 0]
    IN  IF ~f.exists THEN [kind |-> "ok", err |-> "", index |-> IndexDefault, idx |-> 0]
        ELSE IF Len(raw) < 12 THEN bad("Index file too short")
        ELSE IF Slice(raw, 0, 4) # S_DIRC THEN bad("Invalid index signature")
        ELSE IF FromBE32(Slice(raw, 4, 8)) # 2 THEN bad("Only index version 2 is support")
        ELSE LET r == index_read_from(raw, FromBE32(Slice(raw, 8, 12)), 12, <<>>)
             IN  IF r.kind = "ok"
                 THEN [kind |-> "ok", err |-> "",
                       index |-> [version |-> FromBE32(Slice(raw, 4, 8)),
                                  entries |-> r.entries],
                       idx |-> r.idx]
                 ELSE [kind |-> "err", err |-> r.err, index |-> NoIndex, idx |-> r.idx]

(***************************************************************************)
(* object.rs                                                               *)
(***************************************************************************)
\* An Object: a Blob, a Tree, a Commit or a Tag.
Blob(data) == [kind |-> "blob", blobdata |-> data, items |-> <<>>, kvlm |-> <<>>]
Tree(items) == [kind |-> "tree", blobdata |-> <<>>, items |-> items, kvlm |-> <<>>]
Commit(kvlm) == [kind |-> "commit", blobdata |-> <<>>, items |-> <<>>, kvlm |-> kvlm]
Tag(kvlm) == [kind |-> "tag", blobdata |-> <<>>, items |-> <<>>, kvlm |-> kvlm]

\* Object::fmt
ObjFmt(obj) ==
    IF obj.kind = "blob" THEN S_blob
    ELSE IF obj.kind = "tree" THEN S_tree
    ELSE IF obj.kind = "tag" THEN S_tag
    ELSE S_commit

\* Object::serialize
ObjSerialize(obj) ==
    IF obj.kind = "blob" THEN Ok(obj.blobdata)
    ELSE IF obj.kind = "tree" THEN tree_serialize(obj.items)
    ELSE kvlm_serialize(obj.kvlm)

\* The bytes object_write hashes and stores: header, NUL, data.
object_store_bytes(fmt, data) == fmt \o <<SP>> \o DecStr(Len(data)) \o <<NUL>> \o data

\* The id object_write computes for an object.
object_id(obj) == Sha1Hex(object_store_bytes(ObjFmt(obj), ObjSerialize(obj).val))

\* A store that is written to whether or not a handle is given.
HasStoreAlways(repo) == TRUE

\* if let Some(repo) = repo
HasStore(repo) == repo

\* A write that never finds the object already stored.
PathExistsNever(objs, sha) == FALSE

\* object_path.exists() in object_write
PathExists(objs, sha) == sha \in DOMAIN objs

\* A loose object file: the bytes its zlib stream decodes to, and whether the
\* stream was finished.
LooseFile(data, complete) == [data |-> data, complete |-> complete]

\* A read that does not compare the declared length.
object_length_unchecked(size, raw, null_pos) == TRUE

\* The length check of object_read.
object_length_ok(size, raw, null_pos) == size = Len(raw) - null_pos - 1

\* object_read from the decompressed bytes on (lines 104-129).
object_read_raw(raw) ==
    LET space_pos == Position(raw, 0, SP)
        null_pos == Position(raw, 0, NUL)
        fmt == Slice(raw, 0, space_pos)
        size_str == Slice(raw, space_pos + 1, null_pos)
        size == ParseUsize(size_str)
        data == Slice(raw, null_pos + 1, Len(raw))
    IN  IF space_pos = -1 THEN Err("Malformed object header")
        ELSE IF null_pos = -1 THEN Err("Malformed object header")
        ELSE IF space_pos + 1 > null_pos THEN Panic("slice index starts after its end")
        ELSE IF ~IsUtf8(size_str) THEN Err("invalid utf-8")
        ELSE IF ~size.ok THEN Err("invalid digit found in string")
        ELSE IF ~object_length_ok(size.val, raw, null_pos) THEN Err("Malformed object: bad length")
        ELSE IF fmt = S_commit THEN Err("commit type not implemented")
        ELSE IF fmt = S_tree THEN Err("tree type not implemented")
        ELSE IF fmt = S_tag THEN Err("tag type not implemented")
        ELSE IF fmt = S_blob THEN Ok(Blob(data))
        ELSE IF ~IsUtf8(fmt) THEN Err("invalid utf-8")
        ELSE Err("Unknown object type")

\* What ZlibDecoder::read_to_end makes of a loose file: the bytes of a finished
\* stream; of an unfinished one either an error or the bytes decoded so far.
ZlibOutcomes(file) ==
    IF file.complete THEN {Ok(file.data)}
    ELSE {Ok(file.data), Err("corrupt deflate stream")}

NoOp == [op |-> "none", arg |-> <<>>, repo |-> FALSE, raw |-> <<>>, res |-> Ok(<<>>)]

StoreOp(op, arg, repo, raw, res) ==
    [op |-> op, arg |-> arg, repo |-> repo, raw |-> raw, res |-> res]

\* The two-hex-digit directory of an id.
ObjDir(sha) == SubSeq(sha, 1, 2)

\* object_write(obj, repo).  io names the I/O call that fails, if one does:
\* "mkdir" (repo_file), "create" (File::create), "write" (write_all or finish,
\* after the stream decodes to its first io.cut bytes), or "none".
object_write(op, arg, obj, repo, io) ==
    LET store == object_store_bytes(ObjFmt(obj), ObjSerialize(obj).val)
        sha == Sha1Hex(store)
    IN  IF ~HasStore(repo)
        THEN /\ io.at = "none"
             /\ storeOp' = StoreOp(op, arg, repo, <<>>, Ok(sha))
             /\ UNCHANGED <<objects, objdirs>>
        ELSE IF io.at = "mkdir"
        THEN /\ ObjDir(sha) \notin objdirs
             /\ storeOp' = StoreOp(op, arg, repo, <<>>, Err("io"))
             /\ UNCHANGED <<objects, objdirs>>
        ELSE IF PathExists(objects, sha)
        THEN /\ io.at = "none"
             /\ storeOp' = StoreOp(op, arg, repo, <<>>, Ok(sha))
             /\ objdirs' = objdirs \cup {ObjDir(sha)}
             /\ UNCHANGED objects
        ELSE IF io.at = "create"
        THEN /\ storeOp' = StoreOp(op, arg, repo, <<>>, Err("io"))
             /\ objdirs' = objdirs \cup {ObjDir(sha)}
             /\ UNCHANGED objects
        ELSE IF io.at = "write"
        THEN /\ io.cut <= Len(store)
             /\ storeOp' = StoreOp(op, arg, repo, <<>>, Err("io"))
             /\ objdirs' = objdirs \cup {ObjDir(sha)}
             /\ objects' = (sha :> LooseFile(SubSeq(store, 1, io.cut), FALSE)) @@ objects
        ELSE /\ storeOp' = StoreOp(op, arg, repo, <<>>, Ok(sha))
             /\ objdirs' = objdirs \cup {ObjDir(sha)}
             /\ objects' = (sha :> LooseFile(store, TRUE)) @@ objects

(***************************************************************************)
(* Name resolution: object_resolve and object_find (object.rs).            *)
(***************************************************************************)
NoId == [some |-> FALSE, k |-> <<>>]
SomeId(sha) == [some |-> TRUE, k |-> sha]

\* A reference file: a direct one holds an id, a symbolic one ("ref: <path>")
\* the path of another reference.
DirectRef(sha) == [sym |-> FALSE, to |-> sha]
SymRef(path) == [sym |-> TRUE, to |-> path]

\* ref_resolve(repo, path): None when the file does not exist, the id of a
\* direct reference, the resolution of the target of a symbolic one.
RECURSIVE ref_resolve(_, _)
ref_resolve(rs, path) ==
    IF path \notin DOMAIN rs THEN NoId
    ELSE IF rs[path].sym THEN ref_resolve(rs, rs[path].to)
    ELSE SomeId(rs[path].to)

S_HEAD == <<72, 69, 65, 68>>
S_refs_tags == <<114, 101, 102, 115, 47, 116, 97, 103, 115, 47>>
S_refs_heads == <<114, 101, 102, 115, 47, 104, 101, 97, 100, 115, 47>>
K_object == <<111, 98, 106, 101, 99, 116>>
K_tree == <<116, 114, 101, 101>>
K_parent == <<112, 97, 114, 101, 110, 116>>

\* Regex ^[0-9A-Fa-f]{4,40}$
hash_re_is_match(name) ==
    Len(name) >= 4 /\ Len(name) <= 40 /\ \A i \in 1..Len(name) : IsHexDigit(name[i])

\* str::to_lowercase on ASCII
ToLowercase(name) ==
    [i \in 1..Len(name) |-> IF name[i] >= 65 /\ name[i] <= 90 THEN name[i] + 32 ELSE name[i]]

\* The ids of the files of objects/<prefix>/ whose name starts with the rest
\* of the lower-cased name.
hash_matches(objs, dirs, name) ==
    LET lower == ToLowercase(name)
        prefix == SubSeq(lower, 1, 2)
    IN  IF prefix \in dirs
        THEN {sha \in DOMAIN objs :
                  /\ ObjDir(sha) = prefix
                  /\ StartsWith(SubSeq(sha, 3, Len(sha)), SubSeq(lower, 3, Len(lower)))}
        ELSE {}

\* The orders in which fs::read_dir may yield a set of files.
Orders(S) ==
    {q \in [1..Cardinality(S) -> S] : \A i, j \in 1..Cardinality(S) : i # j => q[i] # q[j]}

OptList(opt) == IF opt.some THEN <<opt.k>> ELSE <<>>

\* if name == "HEAD" { ...; return Ok(candidates); }
head_returns(name) == name = S_HEAD

\* object_resolve(repo, name): the candidate lists it may return (one for
\* each order of the directory scan).
object_resolve(objs, dirs, rs, name) ==
    IF name = <<>> THEN {<<>>}
    ELSE LET head == IF name = S_HEAD THEN OptList(ref_resolve(rs, S_HEAD)) ELSE <<>>
             scans == IF hash_re_is_match(name)
                      THEN Orders(hash_matches(objs, dirs, name))
                      ELSE {<<>>}
             tag == OptList(ref_resolve(rs, S_refs_tags \o name))
             branch == OptList(ref_resolve(rs, S_refs_heads \o name))
         IN  IF head_returns(name) THEN {head}
             ELSE {head \o scan \o tag \o branch : scan \in scans}

\* object_read(repo, sha): the results it may give.
object_read(objs, sha) ==
    IF sha \notin DOMAIN objs THEN {Err("Object does not exist")}
    ELSE {IF z.kind = "ok" THEN object_read_raw(z.val) ELSE z : z \in ZlibOutcomes(objs[sha])}

\* kvlm.get(&Some(key)).and_then(|v| v.first()).and_then(from_utf8)
kvlm_first(kvlm, key) ==
    IF KvlmHas(kvlm, SomeKey(key))
           /\ kvlm[KvlmIdx(kvlm, SomeKey(key))].vals # <<>>
           /\ IsUtf8(kvlm[KvlmIdx(kvlm, SomeKey(key))].vals[1])
    THEN SomeId(kvlm[KvlmIdx(kvlm, SomeKey(key))].vals[1])
    ELSE NoId

FindRes(res, reads) == [res |-> res, reads |-> reads]

\* The loop of object_find: the results it may give, each with the ids read.
RECURSIVE object_find_loop(_, _, _, _, _)
object_find_loop(objs, sha, fmt, follow, reads) ==
    UNION {
        IF r.kind # "ok" THEN {FindRes(r, Append(reads, sha))}
        ELSE IF ObjFmt(r.val) = fmt THEN {FindRes(Ok(SomeId(sha)), Append(reads, sha))}
        ELSE IF ~follow THEN {FindRes(Ok(NoId), Append(reads, sha))}
        ELSE IF ObjFmt(r.val) = S_tag
        THEN LET tag_sha == kvlm_first(r.val.kvlm, K_object)
             IN  IF tag_sha.some
                 THEN object_find_loop(objs, tag_sha.k, fmt, follow, Append(reads, sha))
                 ELSE {FindRes(Err("Tag missing object field"), Append(reads, sha))}
        ELSE IF ObjFmt(r.val) = S_commit /\ fmt = S_tree
        THEN LET tree_sha == kvlm_first(r.val.kvlm, K_tree)
             IN  IF tree_sha.some
                 THEN object_find_loop(objs, tree_sha.k, fmt, follow, Append(reads, sha))
                 ELSE {FindRes(Err("Commit missing tree field"), Append(reads, sha))}
        ELSE {FindRes(Ok(NoId), Append(reads, sha))}
        : r \in object_read(objs, sha)}

\* A find that takes the last of several candidates.
find_ambiguous_never(shas) == FALSE

\* if shas.len() > 1
find_ambiguous(shas) == Len(shas) > 1

\* object_find(repo, name, fmt, follow) on the candidates object_resolve gave;
\* fmt is NoId for None.  The error of an ambiguous name carries the candidates.
object_find(objs, shas, fmt, follow) ==
    IF shas = <<>> THEN {FindRes(Err("No such reference"), <<>>)}
    ELSE IF find_ambiguous(shas)
    THEN {FindRes([kind |-> "err", val |-> shas, err |-> "Ambiguous reference"], <<>>)}
    ELSE IF ~fmt.some THEN {FindRes(Ok(SomeId(Last(shas))), <<>>)}
    ELSE object_find_loop(objs, Last(shas), fmt.k, follow, <<>>)

(***************************************************************************)
(* ignore.rs                                                               *)
(***************************************************************************)
\* The characters gitignore_parse1 tests a line for: '#', '!' and '\'.
HASH == 35
BANG == 33
BACKSLASH == 92

\* Option<(String, bool)>: a rule is a pattern and whether a match ignores
\* the path (include = true) or un-ignores it.
NoRule == [some |-> FALSE, pattern |-> <<>>, include |-> FALSE]
SomeRule(pattern, include) == [some |-> TRUE, pattern |-> pattern, include |-> include]
Rule(pattern, include) == [pattern |-> pattern, include |-> include]

\* Option<bool>, the decision of a rule list.
NoDecision == [some |-> FALSE, k |-> FALSE]
Decision(include) == [some |-> TRUE, k |-> include]

\* char::is_whitespace on bytes: tab, LF, VT, FF, CR and space.
IsWhitespace(c) == c \in {9, 10, 11, 12, 13, 32}

\* str::trim: the string without its leading and trailing whitespace.
Trim(s) ==
    LET keep == {i \in 1..Len(s) : ~IsWhitespace(s[i])}
    IN  IF keep = {} THEN <<>>
        ELSE SubSeq(s, CHOOSE i \in keep : \A j \in keep : i <= j,
                       CHOOSE i \in keep : \A j \in keep : i >= j)

\* str::starts_with(char).
starts_with(s, c) == s # <<>> /\ s[1] = c

\* A parse that knows no comment, negation or escape.
gitignore_parse1_plain(line) == IF Trim(line) = <<>> THEN NoRule ELSE SomeRule(Trim(line), TRUE)

gitignore_parse1(line) ==
    LET raw == Trim(line)
    IN  IF raw = <<>> \/ starts_with(raw, HASH) THEN NoRule
        ELSE IF starts_with(raw, BANG) THEN SomeRule(Tail(raw), FALSE)
        ELSE IF starts_with(raw, BACKSLASH) THEN SomeRule(Tail(raw), TRUE)
        ELSE SomeRule(raw, TRUE)

\* filter_map over the lines, in their order.
RECURSIVE gitignore_parse(_)
gitignore_parse(lines) ==
    IF lines = <<>> THEN <<>>
    ELSE LET r == gitignore_parse1(Head(lines))
         IN  (IF r.some THEN <<Rule(r.pattern, r.include)>> ELSE <<>>)
                 \o gitignore_parse(Tail(lines))

\* glob::Pattern::new, as ignore.rs calls it: the tokens of the pattern, or
\* an error.  '?' is any character, '*' any sequence, '**' a recursive
\* sequence that has to be a whole path component, '[...]' and '[!...]'
\* character classes; three or more '*' in a row, a '**' that is not a whole
\* component and a '[' without its ']' are errors.  Every other character
\* (a backslash included) is a literal.
GlobToken(t, c, cs) == [t |-> t, c |-> c, cs |-> cs]
GlobOk(toks) == [ok |-> TRUE, toks |-> toks]
GlobErr == [ok |-> FALSE, toks |-> <<>>]

\* The length of the run of '*' that starts at index i.
RECURSIVE StarRun(_, _)
StarRun(p, i) == IF i <= Len(p) /\ p[i] = 42 THEN 1 + StarRun(p, i + 1) ELSE 0

\* parse_char_specifiers: the characters of a class, 'x-y' being a range.
RECURSIVE ClassChars(_, _)
ClassChars(s, i) ==
    IF i > Len(s) THEN {}
    ELSE IF i + 2 <= Len(s) /\ s[i + 1] = 45
         THEN (s[i]..s[i + 2]) \cup ClassChars(s, i + 3)
         ELSE {s[i]} \cup ClassChars(s, i + 1)

\* The index of the first ']' at or after index from, 0 if there is none.
ClassEnd(p, from) ==
    IF \E q \in from..Len(p) : p[q] = 93
    THEN CHOOSE q \in from..Len(p) : p[q] = 93 /\ \A r \in from..(q - 1) : p[r] # 93
    ELSE 0

RECURSIVE glob_new_from(_, _, _)
glob_new_from(p, i, toks) ==
    IF i > Len(p) THEN GlobOk(toks)
    ELSE IF p[i] = 63 THEN glob_new_from(p, i + 1, Append(toks, GlobToken("any", 0, {})))
    ELSE IF p[i] = 42 THEN
        LET count == StarRun(p, i)
            j == i + count
        IN  IF count > 2 THEN GlobErr
            ELSE IF count = 1
            THEN glob_new_from(p, j, Append(toks, GlobToken("seq", 0, {})))
            ELSE IF ~(i = 1 \/ p[i - 1] = 47) THEN GlobErr
            ELSE IF ~(j > Len(p) \/ p[j] = 47) THEN GlobErr
            ELSE LET next == IF j <= Len(p) THEN j + 1 ELSE j
                     collapsed == Len(toks) > 1 /\ Last(toks).t = "rec"
                 IN  glob_new_from(p, next,
                         IF collapsed THEN toks
                         ELSE Append(toks, GlobToken("rec", 0, {})))
    ELSE IF p[i] = 91 THEN
        IF i + 3 <= Len(p) /\ p[i + 1] = BANG
        THEN LET q == ClassEnd(p, i + 3)
             IN  IF q = 0 THEN GlobErr
                 ELSE glob_new_from(p, q + 1, Append(toks,
                          GlobToken("except", 0, ClassChars(SubSeq(p, i + 2, q - 1), 1))))
        ELSE IF i + 2 <= Len(p) /\ p[i + 1] # BANG
        THEN LET q == ClassEnd(p, i + 2)
             IN  IF q = 0 THEN GlobErr
                 ELSE glob_new_from(p, q + 1, Append(toks,
                          GlobToken("within", 0, ClassChars(SubSeq(p, i + 1, q - 1), 1))))
        ELSE GlobErr
    ELSE glob_new_from(p, i + 1, Append(toks, GlobToken("char", p[i], {})))

glob_new(pattern) == glob_new_from(pattern, 1, <<>>)

\* One token that is not a wildcard sequence against one character, under
\* the default MatchOptions (case sensitive, separators not special).
glob_token_matches(tok, c) ==
    CASE tok.t = "any" -> TRUE
      [] tok.t = "within" -> c \in tok.cs
      [] tok.t = "except" -> c \notin tok.cs
      [] OTHER -> c = tok.c

\* Pattern::matches: the tokens from index ti match the whole of the file
\* name from index fi.  '*' takes any characters, '/' included; '**' takes
\* characters up to and including a '/', or all that is left.
RECURSIVE glob_matches_from(_, _, _, _)
glob_matches_from(toks, ti, file, fi) ==
    IF ti > Len(toks) THEN fi > Len(file)
    ELSE IF toks[ti].t \in {"seq", "rec"}
    THEN \/ glob_matches_from(toks, ti + 1, file, fi)
         \/ \E k \in fi..Len(file) :
               /\ toks[ti].t = "rec" => (file[k] = 47 \/ k = Len(file))
               /\ glob_matches_from(toks, ti + 1, file, k + 1)
    ELSE /\ fi <= Len(file)
         /\ glob_token_matches(toks[ti], file[fi])
         /\ glob_matches_from(toks, ti + 1, file, fi + 1)

glob_matches(toks, file) == glob_matches_from(toks, 1, file, 1)

\* The test of one rule in check_ignore1: the pattern compiles and matches
\* the path; a pattern that does not compile matches nothing.
rule_matches(rule, path) ==
    LET glob_pat == glob_new(rule.pattern)
    IN  glob_pat.ok /\ glob_matches(glob_pat.toks, path)

\* The assignment of check_ignore1 on a match.
check_ignore1_first(result, include) == IF result.some THEN result ELSE Decision(include)

check_ignore1_assign(result, include) == Decision(include)

RECURSIVE check_ignore1_from(_, _, _, _)
check_ignore1_from(rules, i, path, result) ==
    IF i > Len(rules) THEN result
    ELSE check_ignore1_from(rules, i + 1, path,
             IF rule_matches(rules[i], path)
             THEN check_ignore1_assign(result, rules[i].include)
             ELSE result)

check_ignore1(rules, path) == check_ignore1_from(rules, 1, path, NoDecision)

\* Path::parent of a path of names and separators: the path without its
\* last component, None for the empty path and for the root.
NoDir == [some |-> FALSE, k |-> <<>>]
SomeDir(dir) == [some |-> TRUE, k |-> dir]

RECURSIVE StripSeparators(_)
StripSeparators(p) ==
    IF p # <<>> /\ Last(p) = 47 THEN StripSeparators(Front(p)) ELSE p

path_parent(p) ==
    LET body == StripSeparators(p)
        seps == {i \in 1..Len(body) : body[i] = 47}
    IN  IF body = <<>> THEN NoDir
        ELSE IF seps = {} THEN SomeDir(<<>>)
        ELSE LET cut == CHOOSE i \in seps : \A j \in seps : j <= i
                 head == StripSeparators(SubSeq(body, 1, cut))
             IN  SomeDir(IF head = <<>> THEN <<47>> ELSE head)

\* Path::is_absolute.
is_absolute(p) == p # <<>> /\ p[1] = 47

\* The loop of check_ignore_scoped: scoped is a function from directory
\* names to rule lists.
RECURSIVE check_ignore_scoped_from(_, _, _)
check_ignore_scoped_from(scoped, path, current) ==
    LET parent == path_parent(current)
    IN  IF ~parent.some THEN NoDecision
        ELSE LET result == IF parent.k \in DOMAIN scoped
                           THEN check_ignore1(scoped[parent.k], path)
                           ELSE NoDecision
             IN  IF result.some THEN result
                 ELSE check_ignore_scoped_from(scoped, path, parent.k)

check_ignore_scoped(scoped, path) == check_ignore_scoped_from(scoped, path, path)

check_ignore_absolute(rules, path) ==
    LET result == check_ignore1(rules, path)
    IN  IF result.some THEN result.k ELSE FALSE

\* The choice of check_ignore_path between the two decisions.
absolute_first(scoped_result, absolute_result) == absolute_result

scoped_first(scoped_result, absolute_result) == IF scoped_result.some THEN scoped_result.k ELSE absolute_result

check_ignore_path(ignore, path) ==
    IF is_absolute(path)
    THEN Panic("check_ignore requires a path relative to repository root")
    ELSE Ok(scoped_first(check_ignore_scoped(ignore.scoped, path),
                         check_ignore_absolute(ignore.absolute, path)))

(***************************************************************************)
(* log.rs                                                                  *)
(***************************************************************************)
\* The state of a walk: the seen set, the lines printed, the ids read in
\* order, and how the call ended.
LogState(kind, err, seen, out, reads) ==
    [kind |-> kind, err |-> err, seen |-> seen, out |-> out, reads |-> reads]

NodeLine(sha) == [line |-> "node", sha |-> sha, parent |-> <<>>]
EdgeLine(sha, parent) == [line |-> "edge", sha |-> sha, parent |-> parent]

\* log_graphviz(repo, sha, seen): the ends the walk may come to.  The loop
\* over the parents is log_parents, from parent i on.
RECURSIVE log_graphviz(_, _, _)
RECURSIVE log_parents(_, _, _, _, _)
log_graphviz(objs, sha, st) ==
    IF sha \in st.seen THEN {st}
    ELSE LET st1 == [st EXCEPT !.seen = @ \cup {sha}, !.reads = Append(@, sha)]
         IN  UNION {
                 IF r.kind # "ok" THEN {[st1 EXCEPT !.kind = r.kind, !.err = r.err]}
                 ELSE IF r.val.kind # "commit"
                 THEN {[st1 EXCEPT !.kind = "err", !.err = "Object is not a commit"]}
                 ELSE IF Len(sha) < 7
                 THEN {[st1 EXCEPT !.kind = "panic", !.err = "byte index 7 is out of bounds"]}
                 ELSE LET st2 == [st1 EXCEPT !.out = Append(@, NodeLine(sha))]
                          parent_key == SomeKey(K_parent)
                      IN  IF ~KvlmHas(r.val.kvlm, parent_key) THEN {st2}
                          ELSE log_parents(objs, sha,
                                   r.val.kvlm[KvlmIdx(r.val.kvlm, parent_key)].vals, 1, st2)
                 : r \in object_read(objs, sha)}

log_parents(objs, sha, parents, i, st) ==
    IF i > Len(parents) THEN {st}
    ELSE UNION {
             IF s.kind = "ok" THEN log_parents(objs, sha, parents, i + 1, s) ELSE {s}
             : s \in log_graphviz(objs, parents[i],
                                  [st EXCEPT !.out = Append(@, EdgeLine(sha, parents[i]))])}

(***************************************************************************)
(* status.rs                                                               *)
(***************************************************************************)
S_dot_git == <<46, 103, 105, 116>>
S_gitignore == <<46, 103, 105, 116, 105, 103, 110, 111, 114, 101>>
TreeModePrefix == <<48, 52>>
NanosPerSec == 1000000000

\* A line of the report: what is said of which path.
Report(kind, name) == [kind |-> kind, name |-> name]

\* The leaves of a tree from leaf i on, put into the map ret; a subtree is
\* flattened by tree_to_dict under the full path of its leaf.
RECURSIVE tree_to_dict(_, _, _, _, _)
RECURSIVE tree_to_dict_leaves(_, _, _, _, _, _, _)
tree_to_dict_leaves(objs, dirs, rs, items, i, prefix, ret) ==
    IF i > Len(items) THEN {Ok(ret)}
    ELSE LET leaf == items[i]
             full_path == IF prefix = <<>> THEN leaf.path ELSE prefix \o <<47>> \o leaf.path
         IN  IF StartsWith(leaf.mode, TreeModePrefix)
             THEN UNION {
                      IF sub.kind # "ok" THEN {sub}
                      ELSE tree_to_dict_leaves(objs, dirs, rs, items, i + 1, prefix,
                                               sub.val @@ ret)
                      : sub \in tree_to_dict(objs, dirs, rs, leaf.sha, full_path)}
             ELSE tree_to_dict_leaves(objs, dirs, rs, items, i + 1, prefix,
                                      (full_path :> leaf.sha) @@ ret)

\* tree_to_dict(repo, tree_ref, prefix): the results it may give, a map from
\* path to id when it succeeds.
tree_to_dict(objs, dirs, rs, tree_ref, prefix) ==
    UNION {UNION {
        IF f.res.kind # "ok" THEN {[kind |-> f.res.kind, val |-> <<>>, err |-> f.res.err]}
        ELSE IF ~f.res.val.some THEN {Panic("called Option::unwrap() on a None value")}
        ELSE UNION {
                 IF r.kind # "ok" THEN {r}
                 ELSE IF r.val.kind # "tree" THEN {Err("Not a tree object")}
                 ELSE tree_to_dict_leaves(objs, dirs, rs, r.val.items, 1, prefix, <<>>)
                 : r \in object_read(objs, f.res.val.k)}
        : f \in object_find(objs, c, SomeId(S_tree), TRUE)}
        : c \in object_resolve(objs, dirs, rs, tree_ref)}

\* The first loop of status_head_index from entry i on: the HEAD paths not
\* yet matched and the lines printed.
RECURSIVE head_index_entries(_, _, _, _)
head_index_entries(head_map, entries, i, out) ==
    IF i > Len(entries) THEN [head_map |-> head_map, out |-> out]
    ELSE LET entry == entries[i]
             rest == [p \in DOMAIN head_map \ {entry.name} |-> head_map[p]]
         IN  IF entry.name \in DOMAIN head_map
             THEN head_index_entries(rest, entries, i + 1,
                      IF head_map[entry.name] # entry.sha
                      THEN Append(out, Report("modified", entry.name)) ELSE out)
             ELSE head_index_entries(head_map, entries, i + 1,
                                     Append(out, Report("added", entry.name)))

\* status_head_index(repo, index): the ends it may come to.  The deleted
\* paths are printed in the order the map yields its keys.
status_head_index(objs, dirs, rs, index) ==
    UNION {
        IF head.kind # "ok" THEN {[kind |-> head.kind, err |-> head.err, out |-> <<>>]}
        ELSE LET e == head_index_entries(head.val, index.entries, 1, <<>>)
             IN  {[kind |-> "ok", err |-> "",
                   out |-> e.out \o [k \in DOMAIN q |-> Report("deleted", q[k])]]
                      : q \in Orders(DOMAIN e.head_map)}
        : head \in tree_to_dict(objs, dirs, rs, S_HEAD, <<>>)}

\* str::lines: the pieces between newlines, without a final empty piece and
\* without the carriage return that ends a piece.
RECURSIVE Lines(_)
Lines(s) ==
    IF s = <<>> THEN <<>>
    ELSE LET nl == Position(s, 0, LF)
             piece == IF nl = -1 THEN s ELSE Slice(s, 0, nl)
             line == IF piece # <<>> /\ Last(piece) = 13 /\ nl # -1 THEN Front(piece) ELSE piece
         IN  <<line>> \o (IF nl = -1 THEN <<>> ELSE Lines(Slice(s, nl + 1, Len(s))))

\* entry.name == ".gitignore" || entry.name.ends_with("/.gitignore")
is_gitignore(name) ==
    \/ name = S_gitignore
    \/ /\ Len(name) > Len(S_gitignore)
       /\ SubSeq(name, Len(name) - Len(S_gitignore), Len(name)) = <<47>> \o S_gitignore

\* The loop of gitignore_read over the index entries from entry i on.
RECURSIVE gitignore_scoped(_, _, _, _)
gitignore_scoped(objs, entries, i, scoped) ==
    IF i > Len(entries) THEN {Ok(scoped)}
    ELSE IF ~is_gitignore(entries[i].name) THEN gitignore_scoped(objs, entries, i + 1, scoped)
    ELSE UNION {
             IF r.kind # "ok" THEN {r}
             ELSE IF r.val.kind # "blob" THEN {Err(".gitignore is not a blob")}
             ELSE IF ~IsUtf8(r.val.blobdata) THEN {Err("invalid utf-8")}
             ELSE LET parent == path_parent(entries[i].name)
                      dir == IF parent.some THEN parent.k ELSE <<>>
                  IN  gitignore_scoped(objs, entries, i + 1,
                          (dir :> gitignore_parse(Lines(r.val.blobdata))) @@ scoped)
             : r \in object_read(objs, entries[i].sha)}

\* gitignore_read(repo): exclude is the file info/exclude of the control
\* directory; no global ignore file exists.
gitignore_read(f_index, objs, exclude) ==
    LET absolute == IF exclude.exists THEN gitignore_parse(Lines(exclude.bytes)) ELSE <<>>
        index == index_read(f_index)
    IN  IF exclude.exists /\ ~IsUtf8(exclude.bytes) THEN {Err("invalid utf-8")}
        ELSE IF index.kind # "ok" THEN {Err(index.err)}
        ELSE {IF s.kind = "ok" THEN Ok([absolute |-> absolute, scoped |-> s.val]) ELSE s
                 : s \in gitignore_scoped(objs, index.index.entries, 1, <<>>)}

\* A file of the worktree: a regular file or a directory, its change and
\* modification times (seconds, nanoseconds) and its content.
WorkFile(kind, ctime, mtime, data) == [kind |-> kind, ctime |-> ctime, mtime |-> mtime, data |-> data]

\* Path::starts_with(&repo.gitdir), by components.
under_gitdir(path) == path = S_dot_git \/ StartsWith(path, S_dot_git \o <<47>>)

\* seconds * 1_000_000_000 + nanoseconds
time_ns(t) == t[1] * NanosPerSec + t[2]

\* The walk of the worktree: the regular files outside the control
\* directory, in the order walk yields the paths.
all_files_of(files, walk) ==
    SelectSeq(walk, LAMBDA p : ~under_gitdir(p) /\ files[p].kind = "file")

\* The loop of status_index_worktree over the index entries from entry i
\* on: st holds the lines printed, the paths hashed, the files not yet
\* matched and how the loop goes on.
RECURSIVE index_worktree_entries(_, _, _, _)
index_worktree_entries(files, entries, i, st) ==
    IF i > Len(entries) THEN st
    ELSE LET entry == entries[i]
             retained == [st EXCEPT !.all_files = SelectSeq(@, LAMBDA f : f # entry.name)]
         IN  IF entry.name \notin DOMAIN files
             THEN index_worktree_entries(files, entries, i + 1,
                      [retained EXCEPT !.out = Append(@, Report("deleted", entry.name))])
             ELSE IF /\ time_ns(files[entry.name].ctime) = time_ns(entry.ctime)
                     /\ time_ns(files[entry.name].mtime) = time_ns(entry.mtime)
             THEN index_worktree_entries(files, entries, i + 1, retained)
             ELSE IF files[entry.name].kind # "file"
             THEN [st EXCEPT !.kind = "err", !.err = "Is a directory"]
             ELSE index_worktree_entries(files, entries, i + 1,
                      [retained EXCEPT
                          !.hashed = @ \cup {entry.name},
                          !.out = IF object_id(Blob(files[entry.name].data)) # entry.sha
                                  THEN Append(@, Report("modified", entry.name)) ELSE @])

\* status_index_worktree(repo, index): the ends it may come to.
status_index_worktree(f_index, objs, exclude, files, walk, index) ==
    UNION {
        IF ignore.kind # "ok"
        THEN {[kind |-> ignore.kind, err |-> ignore.err, out |-> <<>>, hashed |-> {},
               all_files |-> <<>>, untracked |-> <<>>]}
        ELSE LET st == index_worktree_entries(files, index.entries, 1,
                           [kind |-> "ok", err |-> "", out |-> <<>>, hashed |-> {},
                            all_files |-> all_files_of(files, walk), untracked |-> <<>>])
             IN  IF st.kind # "ok" THEN {st}
                 ELSE IF \E k \in 1..Len(st.all_files) : is_absolute(st.all_files[k])
                 THEN {[st EXCEPT !.kind = "panic",
                           !.err = "check_ignore requires a path relative to repository root"]}
                 ELSE {[st EXCEPT !.untracked = SelectSeq(st.all_files,
                           LAMBDA f : ~check_ignore_path(ignore.val, f).val)]}
        : ignore \in gitignore_read(f_index, objs, exclude)}

\* The inputs of the model.
RECURSIVE SeqsUpTo(_, _)
SeqsUpTo(S, n) ==
    IF n = 0 THEN {<<>>}
    ELSE LET shorter == SeqsUpTo(S, n - 1)
         IN  shorter \cup {Append(q, x) : q \in shorter, x \in S}

BlobDatas == {Repeat(97, n) : n \in 0..MaxData}

S_b == <<98>>
S_btxt == <<98, 46, 116, 120, 116>>
S_atxt == <<97, 46, 116, 120, 116>>
M_file == <<49, 48, 48, 54, 52, 52>>
M_dir6 == <<48, 52, 48, 48, 48, 48>>
M_dir5 == <<52, 48, 48, 48, 48>>
ShaA == Repeat(97, 40)
ShaB == <<48, 48, 50, 48>> \o Repeat(98, 36)

K_gpgsig == <<103, 112, 103, 115, 105, 103>>

SampleTree == Tree(<<TreeLeaf(M_file, S_atxt, ShaA)>>)
SampleCommit ==
    Commit(<<[key |-> SomeKey(K_tree), vals |-> <<S_b>>],
             [key |-> NoKey, vals |-> <<<<109>>>>]>>)

WriteObjs == {Blob(d) : d \in BlobDatas} \cup {SampleTree, SampleCommit}

HashFmts == {S_blob, S_commit, S_tree, S_tag, S_blub}

IoFaults ==
    {[at |-> a, cut |-> 0] : a \in {"none", "mkdir", "create"}}
        \cup {[at |-> "write", cut |-> k] : k \in {0, 5, 6 + MaxData}}

\* object_write called directly with an object.
ObjectWrite ==
    /\ nops < MaxOps
    /\ \E obj \in WriteObjs, repo \in BOOLEAN, io \in IoFaults :
           object_write("write", obj, obj, repo, io)
    /\ nops' = nops + 1
    /\ UNCHANGED <<indexVars, codecVars, refVars, ignoreVars, cmdVars>>

\* object_hash(reader, fmt, repo)
ObjectHash ==
    /\ nops < MaxOps
    /\ \E data \in BlobDatas, fmt \in HashFmts, repo \in BOOLEAN, io \in IoFaults :
           IF fmt = S_blob
           THEN object_write("hash", <<fmt, data>>, Blob(data), repo, io)
           ELSE /\ io.at = "none"
                /\ storeOp' = StoreOp("hash", <<fmt, data>>, repo, <<>>,
                                      IF fmt = S_commit THEN Err("commit type not implemented")
                                      ELSE IF fmt = S_tree THEN Err("tree type not implemented")
                                      ELSE IF fmt = S_tag THEN Err("tag type not implemented")
                                      ELSE Err("Unknown object type"))
                /\ UNCHANGED <<objects, objdirs>>
    /\ nops' = nops + 1
    /\ UNCHANGED <<indexVars, codecVars, refVars, ignoreVars, cmdVars>>

ReadIds == DOMAIN objects \cup {ShaB}

\* object_read(repo, sha)
ObjectRead ==
    /\ nops < MaxOps
    /\ \E sha \in ReadIds :
           IF sha \notin DOMAIN objects
           THEN storeOp' = StoreOp("read", sha, TRUE, <<>>, Err("Object does not exist"))
           ELSE \E z \in ZlibOutcomes(objects[sha]) :
                    storeOp' = StoreOp("read", sha, TRUE, z.val,
                                       IF z.kind = "ok" THEN object_read_raw(z.val) ELSE z)
    /\ nops' = nops + 1
    /\ UNCHANGED <<objects, objdirs, indexVars, codecVars, refVars, ignoreVars, cmdVars>>

NoFile == [exists |-> FALSE, bytes |-> <<>>]
NoIndexOp == [op |-> "none", written |-> NoIndex, res |-> index_read(NoFile)]
NoCodecOp == [op |-> "none", arg |-> <<>>, mid |-> Ok(<<>>), res |-> Ok(<<>>)]
NoFindOp == [op |-> "none", name |-> <<>>, fmt |-> <<>>, follow |-> FALSE,
             cands |-> <<>>, reads |-> <<>>, res |-> Ok(<<>>)]
NoWorktree == [files |-> <<>>, exclude |-> NoFile]
NoCmdOp == [op |-> "none", index |-> <<>>, start |-> <<>>, out |-> <<>>, reads |-> <<>>,
            hashed |-> {}, untracked |-> <<>>, res |-> Ok(<<>>)]
NoIgnore == [absolute |-> <<>>, scoped |-> <<>>]
NoIgnoreOp == [op |-> "none", lines |-> <<>>, rules |-> <<>>, ignore |-> NoIgnore,
               path |-> <<>>, res |-> Ok(<<>>)]

(***************************************************************************)
(* Name resolution applied to a store that holds a blob, a tree, a commit  *)
(* and a tag, under several sets of references.                            *)
(***************************************************************************)
IdBlob == <<97, 98, 99, 100>> \o Repeat(48, 36)
IdTree == <<97, 98, 99, 100>> \o Repeat(49, 36)
IdCommit == <<98, 101, 101, 102>> \o Repeat(50, 36)
IdTag == <<99, 97, 102, 101>> \o Repeat(51, 36)

FindStore ==
    (IdBlob :> LooseFile(object_store_bytes(S_blob, <<97>>), TRUE))
        @@ (IdTree :> LooseFile(object_store_bytes(S_tree, <<>>), TRUE))
        @@ (IdCommit :> LooseFile(object_store_bytes(S_commit,
                K_tree \o <<SP>> \o IdTree \o <<LF, LF, 109>>), TRUE))
        @@ (IdTag :> LooseFile(object_store_bytes(S_tag,
                K_object \o <<SP>> \o IdCommit \o <<LF, LF, 109>>), TRUE))

N_main == <<109, 97, 105, 110>>
N_v1 == <<118, 49>>
N_abcd == <<97, 98, 99, 100>>
N_beef == <<98, 101, 101, 102>>

\* References: HEAD as repo_create writes it (a symbolic reference to a
\* branch), a branch and a tag, and names that two rules resolve.
RefsFresh == S_HEAD :> SymRef(S_refs_heads \o N_main)
RefsBase ==
    RefsFresh @@ (S_refs_heads \o N_main :> DirectRef(IdCommit))
              @@ (S_refs_tags \o N_v1 :> DirectRef(IdTag))

RefConfigs ==
    {RefsFresh,
     RefsBase,
     RefsBase @@ (S_refs_tags \o N_main :> DirectRef(IdTag)),
     RefsBase @@ (S_refs_heads \o N_v1 :> DirectRef(IdTag)),
     RefsBase @@ (S_refs_heads \o S_HEAD :> DirectRef(IdBlob)),
     RefsBase @@ (S_refs_tags \o N_beef :> DirectRef(IdBlob))}

FindNames ==
    {<<>>, S_HEAD, N_main, N_v1, N_abcd, N_beef,
     N_abcd \o <<48>>, <<65, 66, 67, 68, 49>>, <<97, 98, 99>>,
     <<99, 97, 102, 101>>, <<100, 101, 97, 100>>, IdCommit}

FindFmts == {NoId} \cup {SomeId(f) : f \in {S_blob, S_tree, S_commit, S_tag}}

\* object_resolve(repo, name)
ObjectResolve ==
    /\ findOp.op = "none"
    /\ \E name \in FindNames :
           \E c \in object_resolve(objects, objdirs, refs, name) :
               findOp' = [op |-> "resolve", name |-> name, fmt |-> NoId, follow |-> FALSE,
                          cands |-> c, reads |-> <<>>, res |-> Ok(c)]
    /\ UNCHANGED <<storeVars, indexVars, codecVars, refs, ignoreVars, cmdVars>>

\* object_find(repo, name, fmt, follow)
ObjectFind ==
    /\ findOp.op = "none"
    /\ \E name \in FindNames, fmt \in FindFmts, follow \in BOOLEAN :
           \E c \in object_resolve(objects, objdirs, refs, name) :
               \E r \in object_find(objects, c, fmt, follow) :
                   findOp' = [op |-> "find", name |-> name, fmt |-> fmt, follow |-> follow,
                              cands |-> c, reads |-> r.reads, res |-> r.res]
    /\ UNCHANGED <<storeVars, indexVars, codecVars, refs, ignoreVars, cmdVars>>

(***************************************************************************)
(* The ignore rules applied to bounded inputs.                             *)
(***************************************************************************)
MaxLines == 2
MaxRules == 2

\* Lines of an ignore file: "", "  ", "#a", tab "#", "a", " a ", "!a", " !a",
\* "!", "\!a", "\#a" and "*".
IgnoreLines ==
    {<<>>, <<32, 32>>, <<35, 97>>, <<9, 35>>, <<97>>, <<32, 97, 32>>, <<33, 97>>,
     <<32, 33, 97>>, <<33>>, <<92, 33, 97>>, <<92, 35, 97>>, <<42>>}

\* Patterns: "a", "*", "d/*", "**/a", "[!a]" and "***", which does not compile.
IgnorePatterns ==
    {<<97>>, <<42>>, <<100, 47, 42>>, <<42, 42, 47, 97>>, <<91, 33, 97, 93>>, <<42, 42, 42>>}

IgnoreRules == {Rule(p, include) : p \in IgnorePatterns, include \in BOOLEAN}

\* Paths relative to the worktree: "a", "b", "d/a", "d/b" and "d/e/a"; and
\* the absolute path "/a".
RelativePaths ==
    {<<97>>, <<98>>, <<100, 47, 97>>, <<100, 47, 98>>, <<100, 47, 101, 47, 97>>}
AbsolutePaths == {<<47, 97>>}

\* The directories that hold a .gitignore: the root "", "d" and "d/e".
IgnoreDirs == {<<>>, <<100>>, <<100, 47, 101>>}

\* The rule lists of the ignore files "*", "!*", "d/*", "!d/e/*" and "***",
\* and of the exclude file: none, "*" or "!*".
ScopedLists ==
    {gitignore_parse(<<l>>) :
        l \in {<<42>>, <<33, 42>>, <<100, 47, 42>>, <<33, 100, 47, 101, 47, 42>>, <<42, 42, 42>>}}
AbsoluteLists == {gitignore_parse(ls) : ls \in {<<>>, <<<<42>>>>, <<<<33, 42>>>>}}

\* What gitignore_read can return: the absolute rules and, for some
\* directories, the rules of their .gitignore.
Ignores ==
    {[absolute |-> a, scoped |-> s] :
        a \in AbsoluteLists,
        s \in UNION {[D -> ScopedLists] : D \in SUBSET IgnoreDirs}}

GitignoreParse ==
    /\ ignoreOp.op = "none"
    /\ \E lines \in SeqsUpTo(IgnoreLines, MaxLines) :
          ignoreOp' = [NoIgnoreOp EXCEPT !.op = "parse", !.lines = lines,
                                         !.res = gitignore_parse(lines)]
    /\ UNCHANGED <<storeVars, indexVars, codecVars, refVars, cmdVars>>

CheckIgnore1 ==
    /\ ignoreOp.op = "none"
    /\ \E rules \in SeqsUpTo(IgnoreRules, MaxRules), path \in RelativePaths :
          ignoreOp' = [NoIgnoreOp EXCEPT !.op = "check1", !.rules = rules, !.path = path,
                                         !.res = check_ignore1(rules, path)]
    /\ UNCHANGED <<storeVars, indexVars, codecVars, refVars, cmdVars>>

CheckIgnorePath ==
    /\ ignoreOp.op = "none"
    /\ \E ignore \in Ignores, path \in RelativePaths \cup AbsolutePaths :
          ignoreOp' = [NoIgnoreOp EXCEPT !.op = "path", !.ignore = ignore, !.path = path,
                                         !.res = check_ignore_path(ignore, path)]
    /\ UNCHANGED <<storeVars, indexVars, codecVars, refVars, cmdVars>>

(***************************************************************************)
(* The history walk applied to stores of three commits: every commit has   *)
(* no parent, one parent or two, a parent link may point at the commit     *)
(* itself or back at a descendant.                                         *)
(***************************************************************************)
IdC1 == <<99, 49>> \o Repeat(49, 38)
IdC2 == <<99, 50>> \o Repeat(50, 38)
IdC3 == <<99, 51>> \o Repeat(51, 38)
LogIds == {IdC1, IdC2, IdC3}

\* The parent lists of a commit.
ParentLists == {<<>>, <<IdC1>>, <<IdC2>>, <<IdC3>>, <<IdC2, IdC3>>}

\* A commit graph: the parent list of each commit.
LogGraphs == [LogIds -> ParentLists]

RECURSIVE ParentHeaders(_)
ParentHeaders(parents) ==
    IF parents = <<>> THEN <<>>
    ELSE K_parent \o <<SP>> \o Head(parents) \o <<LF>> \o ParentHeaders(Tail(parents))

\* The payload of a commit with these parents, as git writes it.
CommitPayload(parents) ==
    K_tree \o <<SP>> \o IdTree \o <<LF>> \o ParentHeaders(parents) \o <<LF, 109>>

\* The object files of a graph.
LogStore(g) == [sha \in LogIds |-> LooseFile(object_store_bytes(S_commit, CommitPayload(g[sha])), TRUE)]

\* log_graphviz(repo, sha, seen) with an empty seen set.
LogGraphviz ==
    /\ cmdOp.op = "none"
    /\ \E sha \in DOMAIN objects :
          \E end \in log_graphviz(objects, sha, LogState("ok", "", {}, <<>>, <<>>)) :
              cmdOp' = [NoCmdOp EXCEPT !.op = "log", !.start = sha, !.out = end.out,
                                       !.reads = end.reads,
                                       !.res = [kind |-> end.kind, val |-> <<>>, err |-> end.err]]
    /\ UNCHANGED <<storeVars, indexVars, codecVars, refVars, ignoreVars, worktree>>

(***************************************************************************)
(* The tree codec applied to bounded inputs.                               *)
(***************************************************************************)
MaxLeaves == 2

TreePaths == {S_b, S_btxt, S_atxt}

\* Leaves as a Tree holds them, and as a payload spells them (a directory's
\* mode may have five digits on the wire).
MemLeaves == {TreeLeaf(m, p, h) : m \in {M_file, M_dir6}, p \in TreePaths, h \in {ShaA, ShaB}}
WireLeaves == {TreeLeaf(m, p, ShaA) : m \in {M_file, M_dir5, M_dir6}, p \in TreePaths}

DistinctPaths(leaves) ==
    \A i, j \in 1..Len(leaves) : i # j => leaves[i].path # leaves[j].path

TreeItemSeqs == {q \in SeqsUpTo(MemLeaves, MaxLeaves) : DistinctPaths(q)}
WireLeafSeqs == {q \in SeqsUpTo(WireLeaves, MaxLeaves) : DistinctPaths(q)}

\* The payload that spells the leaves in the order given.
RECURSIVE TreeWire(_)
TreeWire(leaves) ==
    IF leaves = <<>> THEN <<>>
    ELSE leaves[1].mode \o <<SP>> \o leaves[1].path \o <<NUL>>
             \o HexDecode(leaves[1].sha) \o TreeWire(Tail(leaves))

\* tree_serialize(&Tree { items })
TreeSerialize ==
    /\ treeOp.op = "none"
    /\ \E items \in TreeItemSeqs :
           treeOp' = [op |-> "serialize", arg |-> items, mid |-> Ok(items),
                      res |-> tree_serialize(items)]
    /\ UNCHANGED <<storeVars, indexVars, kvOp, refVars, ignoreVars, cmdVars>>

\* Tree::deserialize(data).serialize()
TreeReserialize ==
    /\ treeOp.op = "none"
    /\ \E leaves \in WireLeafSeqs :
           LET t == TreeDeserialize(TreeWire(leaves))
           IN  treeOp' = [op |-> "reserialize", arg |-> leaves, mid |-> t,
                          res |-> IF t.kind = "ok" THEN tree_serialize(t.val) ELSE t]
    /\ UNCHANGED <<storeVars, indexVars, kvOp, refVars, ignoreVars, cmdVars>>

(***************************************************************************)
(* The KVLM codec applied to bounded inputs.                               *)
(***************************************************************************)
MaxKv == 3

V_two == <<97, LF, 98>>
V_gap == <<97, LF, LF, 98>>
Msg_m == <<109>>
Msg_indent == <<109, LF, SP, 110>>
Msg_words == <<109, SP, 110, LF>>

KvEntries ==
    {[key |-> SomeKey(K_tree), vals |-> <<S_b>>],
     [key |-> SomeKey(K_parent), vals |-> <<S_b, S_atxt>>],
     [key |-> SomeKey(K_gpgsig), vals |-> <<V_two>>],
     [key |-> SomeKey(K_gpgsig), vals |-> <<V_gap>>]}
        \cup {[key |-> NoKey, vals |-> <<m>>] : m \in {<<>>, Msg_m, Msg_indent, Msg_words}}

DistinctKeys(kvlm) == \A i, j \in 1..Len(kvlm) : i # j => kvlm[i].key # kvlm[j].key

Kvlms == {q \in SeqsUpTo(KvEntries, MaxKv) : DistinctKeys(q)}

\* The header lines and messages commit payloads are made of.
HeaderLines ==
    {<<K_tree, S_b>>, <<K_parent, S_b>>, <<K_parent, S_atxt>>,
     <<K_gpgsig, V_two>>, <<K_gpgsig, V_gap>>}

\* A header value as a payload spells it: each newline of the value is
\* followed by one space.
WireValue(v) ==
    LET nl(i) == Cardinality({k \in 1..i : v[k] = LF})
    IN  [j \in 1..(Len(v) + nl(Len(v))) |->
            IF \E i \in 1..Len(v) : i + nl(i - 1) = j
            THEN v[CHOOSE i \in 1..Len(v) : i + nl(i - 1) = j]
            ELSE SP]

RECURSIVE WireHeaders(_)
WireHeaders(lines) ==
    IF lines = <<>> THEN <<>>
    ELSE lines[1][1] \o <<SP>> \o WireValue(lines[1][2]) \o <<LF>> \o WireHeaders(Tail(lines))

\* A commit payload: header lines, then (when blank) a blank line and a message.
KvSources ==
    {[lines |-> l, blank |-> b, msg |-> m] :
        l \in SeqsUpTo(HeaderLines, MaxKv - 1), b \in BOOLEAN,
        m \in {<<>>, Msg_m, Msg_indent, Msg_words}}

KvWire(src) ==
    WireHeaders(src.lines) \o (IF src.blank THEN <<LF>> \o src.msg ELSE <<>>)

\* kvlm_serialize(&kvlm)
KvlmSerialize ==
    /\ kvOp.op = "none"
    /\ \E kvlm \in Kvlms :
           kvOp' = [op |-> "serialize", arg |-> kvlm, mid |-> Ok(kvlm),
                    res |-> kvlm_serialize(kvlm)]
    /\ UNCHANGED <<storeVars, indexVars, treeOp, refVars, ignoreVars, cmdVars>>

\* Commit::deserialize(data).serialize()
KvlmReserialize ==
    /\ kvOp.op = "none"
    /\ \E src \in KvSources :
           LET d == kvlm_parse(KvWire(src))
           IN  kvOp' = [op |-> "reserialize", arg |-> src, mid |-> d,
                        res |-> IF d.kind = "ok" THEN kvlm_serialize(d.val) ELSE d]
    /\ UNCHANGED <<storeVars, indexVars, treeOp, refVars, ignoreVars, cmdVars>>

(***************************************************************************)
(* Continuation lines: header values folded and escaped.                   *)
(***************************************************************************)
MaxValue == 4

\* Header values and wire values: newlines, spaces and the letter "a".
FoldValues == SeqsUpTo({LF, SP, 97}, MaxValue)

\* continuation_line_optmize(value) on any bytes.
ContinuationFold ==
    /\ kvOp.op = "none"
    /\ \E value \in FoldValues :
           kvOp' = [op |-> "fold", arg |-> value, mid |-> Ok(value),
                    res |-> Ok(continuation_line_optmize(value))]
    /\ UNCHANGED <<storeVars, indexVars, treeOp, refVars, ignoreVars, cmdVars>>

\* The value kvlm_serialize emits for a header value, folded again.
ContinuationRefold ==
    /\ kvOp.op = "none"
    /\ \E value \in FoldValues :
           kvOp' = [op |-> "refold", arg |-> value, mid |-> Ok(kvlm_escape(value)),
                    res |-> Ok(continuation_line_optmize(kvlm_escape(value)))]
    /\ UNCHANGED <<storeVars, indexVars, treeOp, refVars, ignoreVars, cmdVars>>

(***************************************************************************)
(* The deserializers applied to payloads with one structural defect.       *)
(***************************************************************************)
TreeDefects == {"none", "no_space", "no_nul", "short_sha"}

\* The bytes of one leaf, with the defect: the space left out, the NUL left
\* out, or the hash cut to 19 bytes.
DefectLeafWire(leaf, defect) ==
    leaf.mode
        \o (IF defect = "no_space" THEN <<>> ELSE <<SP>>)
        \o leaf.path
        \o (IF defect = "no_nul" THEN <<>> ELSE <<NUL>>)
        \o (IF defect = "short_sha" THEN SubSeq(HexDecode(leaf.sha), 1, 19)
            ELSE HexDecode(leaf.sha))

\* Tree payloads: at most one well-formed leaf, then a leaf with the defect.
TreeRaws ==
    {[raw |-> TreeWire(pre) \o DefectLeafWire(leaf, d), defect |-> d] :
        pre \in {<<>>, <<TreeLeaf(M_file, S_atxt, ShaA)>>},
        leaf \in WireLeaves, d \in TreeDefects}

\* Tree::deserialize(data)
TreeDeserializeRaw ==
    /\ treeOp.op = "none"
    /\ \E src \in TreeRaws :
           treeOp' = [op |-> "deserialize", arg |-> src, mid |-> tree_parse(src.raw),
                      res |-> TreeDeserialize(src.raw)]
    /\ UNCHANGED <<storeVars, indexVars, kvOp, refVars, ignoreVars, cmdVars>>

KvDefects == {"none", "no_space", "no_newline", "no_space_no_newline"}

\* The bytes of the last header of a payload, with the defect; a header with
\* its newline is followed by the blank line and a message.
DefectHeaderWire(key, defect) ==
    CASE defect = "none" -> key \o <<SP>> \o S_b \o <<LF, LF>> \o <<109>>
      [] defect = "no_space" -> key \o S_b \o <<LF, LF>> \o <<109>>
      [] defect = "no_newline" -> key \o <<SP>> \o S_b
      [] OTHER -> key \o S_b

\* Commit payloads: at most one well-formed header, then a header with the defect.
CommitRaws ==
    {[raw |-> WireHeaders(pre) \o DefectHeaderWire(key, d), defect |-> d] :
        pre \in {<<>>, <<<<K_tree, S_b>>>>},
        key \in {K_tree, K_parent, K_gpgsig}, d \in KvDefects}

\* Commit::deserialize(data)
CommitDeserializeRaw ==
    /\ kvOp.op = "none"
    /\ \E src \in CommitRaws :
           kvOp' = [op |-> "deserialize", arg |-> src, mid |-> kvlm_parse(src.raw),
                    res |-> kvlm_parse(src.raw)]
    /\ UNCHANGED <<storeVars, indexVars, treeOp, refVars, ignoreVars, cmdVars>>

(***************************************************************************)
(* The index codec applied to bounded inputs.                              *)
(***************************************************************************)
MaxEntries == 2

N_sub == <<97, 47, 98>>
N_long == Repeat(97, NameLenSentinel)

IndexNames == {S_b, S_btxt, N_sub, N_long}

\* An entry in valid state with the given name and mode type.
IndexEntry(name, mode_type) ==
    [ctime |-> <<1, 2>>, mtime |-> <<3, 4>>, dev |-> 5, ino |-> 6,
     mode_type |-> mode_type, mode_perms |-> IF mode_type = 8 THEN 420 ELSE 0,
     uid |-> 1000, gid |-> 1000, fsize |-> Len(name), sha |-> ShaB,
     flag_assume_valid |-> (mode_type = 10),
     flag_stage |-> IF mode_type = 14 THEN 4096 ELSE 0,
     name |-> name]

IndexEntries == {IndexEntry(n, t) : n \in IndexNames, t \in {8, 10, 14}}

Indexes == {[version |-> 2, entries |-> q] : q \in SeqsUpTo(IndexEntries, MaxEntries)}

\* index_write(repo, index).  The call does not read the file it replaces:
\* it is explored from the fresh control directory.
IndexWrite ==
    /\ indexOp.op = "none"
    /\ \E index \in Indexes :
           LET w == index_write(index)
           IN  /\ indexFile' = [exists |-> TRUE, bytes |-> w.bytes]
               /\ indexOp' = [op |-> "write", written |-> index,
                              res |-> [kind |-> w.kind, err |-> w.err,
                                       index |-> NoIndex, idx |-> w.idx]]
    /\ UNCHANGED <<storeVars, codecVars, refVars, ignoreVars, cmdVars>>

\* index_read(repo)
IndexRead ==
    /\ indexOp.op # "read"
    /\ indexOp' = [op |-> "read", written |-> indexOp.written, res |-> index_read(indexFile)]
    /\ UNCHANGED <<indexFile, storeVars, codecVars, refVars, ignoreVars, cmdVars>>

(***************************************************************************)
(* Index files found in a repository: one entry in the layout index_read   *)
(* reads, with each field index_read tests made right or wrong.            *)
(***************************************************************************)
S_DIRX == <<68, 73, 82, 88>>

\* The bytes of an index file of one entry named "b": the 12 header bytes,
\* the 62 fixed bytes (two reserved bytes before the 16-bit mode), the name,
\* then (when term) its NUL and the padding to a multiple of 8.
IndexFileBytes(magic, version, resv, mode_type, ext, term) ==
    magic \o BE32(version) \o BE32(1)
        \o BE32(1) \o BE32(2) \o BE32(3) \o BE32(4) \o BE32(5) \o BE32(6)
        \o BE16(resv) \o BE16(mode_type * 4096 + 420)
        \o BE32(1000) \o BE32(1000) \o BE32(1)
        \o HexDecode(ShaA)
        \o BE16((IF ext THEN FlagExtended ELSE 0) + 1)
        \o S_b
        \o (IF term THEN Repeat(NUL, 5) ELSE <<>>)

\* The mode types: regular, symlink, gitlink, and two that are none of them.
FileModeTypes == {8, 10, 14, 4, 0}

IndexFiles ==
    {[exists |-> TRUE,
      bytes |-> IF cut THEN SubSeq(IndexFileBytes(magic, version, resv, t, ext, term), 1, 73)
                ELSE IndexFileBytes(magic, version, resv, t, ext, term)] :
        magic \in {S_DIRC, S_DIRX}, version \in {2, 3}, resv \in {0, 1},
        t \in FileModeTypes, ext \in BOOLEAN, term \in BOOLEAN, cut \in BOOLEAN}
        \cup {NoFile, [exists |-> TRUE, bytes |-> S_DIRC \o BE32(2) \o BE32(0)]}

(***************************************************************************)
(* status_head_index applied to stores that hold a HEAD commit, its tree   *)
(* and its blobs, and to indexes over the same paths.                      *)
(***************************************************************************)
S_d == <<100>>
S_ctxt == <<99, 46, 116, 120, 116>>
S_d_ctxt == S_d \o <<47>> \o S_ctxt

\* The ids of the blobs "1" and "2".
Sid1 == object_id(Blob(<<49>>))
Sid2 == object_id(Blob(<<50>>))

\* A HEAD tree: the ids of a.txt and b.txt where it has them, and whether
\* it has the subtree d with the file c.txt.
Heads == {[dict |-> f, sub |-> sub] :
             f \in UNION {[D -> {Sid1, Sid2}] : D \in SUBSET {S_atxt, S_btxt}},
             sub \in BOOLEAN}

StoredTree(leaves) == LooseFile(object_store_bytes(S_tree, TreeWire(leaves)), TRUE)
TreeId(leaves) == Sha1Hex(object_store_bytes(S_tree, TreeWire(leaves)))

SubLeaves == <<TreeLeaf(M_file, S_ctxt, Sid1)>>
RootLeaves(h) ==
    (IF S_atxt \in DOMAIN h.dict THEN <<TreeLeaf(M_file, S_atxt, h.dict[S_atxt])>> ELSE <<>>)
        \o (IF S_btxt \in DOMAIN h.dict THEN <<TreeLeaf(M_file, S_btxt, h.dict[S_btxt])>> ELSE <<>>)
        \o (IF h.sub THEN <<TreeLeaf(M_dir5, S_d, TreeId(SubLeaves))>> ELSE <<>>)

HeadCommitPayload(h) == K_tree \o <<SP>> \o TreeId(RootLeaves(h)) \o <<LF, LF, 109>>
HeadCommitId(h) == Sha1Hex(object_store_bytes(S_commit, HeadCommitPayload(h)))

\* The object files of a repository whose HEAD commit has the tree h.
StatusStore(h) ==
    (Sid1 :> LooseFile(object_store_bytes(S_blob, <<49>>), TRUE))
        @@ (Sid2 :> LooseFile(object_store_bytes(S_blob, <<50>>), TRUE))
        @@ (TreeId(SubLeaves) :> StoredTree(SubLeaves))
        @@ (TreeId(RootLeaves(h)) :> StoredTree(RootLeaves(h)))
        @@ (HeadCommitId(h) :> LooseFile(object_store_bytes(S_commit, HeadCommitPayload(h)), TRUE))

\* The references: HEAD on the branch main at the commit, HEAD detached at
\* the commit, or HEAD on a branch that has no commit yet.
StatusRefs(h) ==
    {RefsFresh @@ (S_refs_heads \o N_main :> DirectRef(HeadCommitId(h))),
     S_HEAD :> DirectRef(HeadCommitId(h)),
     RefsFresh}

\* An index entry for a path with an id and the times (1, 2) and (1, 4).
StatusEntry(name, sha) ==
    [IndexEntry(name, 8) EXCEPT !.sha = sha, !.ctime = <<1, 2>>, !.mtime = <<1, 4>>]

\* The indexes over the three paths, their entries in the order of the names.
StatusIndexes ==
    {[version |-> 2,
      entries |->
          (IF S_atxt \in DOMAIN f THEN <<StatusEntry(S_atxt, f[S_atxt])>> ELSE <<>>)
              \o (IF S_btxt \in DOMAIN f THEN <<StatusEntry(S_btxt, f[S_btxt])>> ELSE <<>>)
              \o (IF S_d_ctxt \in DOMAIN f THEN <<StatusEntry(S_d_ctxt, f[S_d_ctxt])>> ELSE <<>>)] :
        f \in UNION {[D -> {Sid1, Sid2}] : D \in SUBSET {S_atxt, S_btxt, S_d_ctxt}}}

\* status_head_index(repo, index)
StatusHeadIndex ==
    /\ cmdOp.op = "none"
    /\ \E index \in StatusIndexes :
          \E end \in status_head_index(objects, objdirs, refs, index) :
              cmdOp' = [NoCmdOp EXCEPT !.op = "head_index", !.index = index, !.out = end.out,
                                       !.res = [kind |-> end.kind, val |-> <<>>, err |-> end.err]]
    /\ UNCHANGED <<storeVars, indexVars, codecVars, refVars, ignoreVars, worktree>>

(***************************************************************************)
(* status_index_worktree applied to worktrees with the tracked files a.txt *)
(* and b.txt, present or not, touched or not, changed or not, with other   *)
(* files beside them and with an exclude file.                             *)
(***************************************************************************)
S_git_config == S_dot_git \o <<47, 99, 111, 110, 102, 105, 103>>

\* The states of a tracked file: absent; as the index has it; changed with
\* the times of the index; touched; touched and changed, by either time.
TrackedStates ==
    {<<>>,
     <<WorkFile("file", <<1, 2>>, <<1, 4>>, <<49>>)>>,
     <<WorkFile("file", <<1, 2>>, <<1, 4>>, <<50>>)>>,
     <<WorkFile("file", <<1, 2>>, <<1, 5>>, <<49>>)>>,
     <<WorkFile("file", <<1, 2>>, <<1, 5>>, <<50>>)>>,
     <<WorkFile("file", <<1, 3>>, <<1, 4>>, <<50>>)>>}

FileAt(path, state) == IF state = <<>> THEN <<>> ELSE path :> state[1]

\* The files beside the tracked ones: the configuration file of the control
\* directory, and with it nothing, c.txt, or c.txt and the directory d.
OtherFiles ==
    {S_git_config :> WorkFile("file", <<1, 1>>, <<1, 1>>, <<>>),
     (S_git_config :> WorkFile("file", <<1, 1>>, <<1, 1>>, <<>>))
         @@ (S_ctxt :> WorkFile("file", <<1, 1>>, <<1, 1>>, <<51>>)),
     (S_git_config :> WorkFile("file", <<1, 1>>, <<1, 1>>, <<>>))
         @@ (S_ctxt :> WorkFile("file", <<1, 1>>, <<1, 1>>, <<51>>))
         @@ (S_d :> WorkFile("dir", <<1, 1>>, <<1, 1>>, <<>>))}

\* The exclude file: absent, "c.txt", or "*.txt" and "!b.txt".
Excludes ==
    {NoFile,
     [exists |-> TRUE, bytes |-> S_ctxt \o <<LF>>],
     [exists |-> TRUE, bytes |-> <<42, 46, 116, 120, 116, LF, 33>> \o S_btxt \o <<LF>>]}

Worktrees ==
    {[files |-> FileAt(S_atxt, a) @@ FileAt(S_btxt, b) @@ o, exclude |-> x] :
        a \in TrackedStates, b \in TrackedStates, o \in OtherFiles, x \in Excludes}

\* The index file of the repository: absent, or what index_write wrote for
\* the empty index or for an index of a.txt.
StatusIndexFiles ==
    {NoFile,
     [exists |-> TRUE, bytes |-> index_write([version |-> 2, entries |-> <<>>]).bytes],
     [exists |-> TRUE,
      bytes |-> index_write([version |-> 2, entries |-> <<StatusEntry(S_atxt, Sid1)>>]).bytes]}

\* The indexes handed to status_index_worktree.
WorkIndexes ==
    {[version |-> 2, entries |-> q] :
        q \in {<<>>, <<StatusEntry(S_atxt, Sid1)>>, <<StatusEntry(S_btxt, Sid1)>>,
               <<StatusEntry(S_atxt, Sid1), StatusEntry(S_btxt, Sid1)>>}}

\* status_index_worktree(repo, index)
StatusIndexWorktree ==
    /\ cmdOp.op = "none"
    /\ \E index \in WorkIndexes, walk \in Orders(DOMAIN worktree.files) :
          \E end \in status_index_worktree(indexFile, objects, worktree.exclude,
                                           worktree.files, walk, index) :
              cmdOp' = [NoCmdOp EXCEPT !.op = "index_worktree", !.index = index,
                                       !.out = end.out, !.hashed = end.hashed,
                                       !.untracked = end.untracked,
                                       !.res = [kind |-> end.kind, val |-> <<>>, err |-> end.err]]
    /\ UNCHANGED <<storeVars, indexVars, codecVars, refVars, ignoreVars, worktree>>

(***************************************************************************)
(* Loose objects found in a repository: files object_write did not make.   *)
(***************************************************************************)
PlantSha == ShaA

PlantRaws ==
    {object_store_bytes(f, Repeat(97, n)) : f \in HashFmts, n \in 0..MaxData}
        \cup {f \o <<SP>> \o DecStr(d) \o <<NUL>> \o Repeat(97, n) :
                  f \in HashFmts, d \in 0..(MaxData + 1), n \in 0..MaxData}
        \cup {S_blob \o <<SP, 43, 49, NUL, 97>>,
              S_blob \o <<SP, 48, 49, NUL, 97>>,
              S_blob \o <<SP, 120, NUL, 97>>,
              S_blob \o <<SP, NUL>>,
              S_blob \o <<SP, 50, NUL, NUL, SP>>,
              S_blob \o <<NUL, SP, 49>>,
              S_blob \o <<SP, 49>>,
              S_blob \o <<NUL, 49>>,
              <<>>}

Init ==
    /\ objects = <<>>
    /\ objdirs = {}
    /\ storeOp = NoOp
    /\ nops = 0
    /\ indexFile = NoFile
    /\ indexOp = NoIndexOp
    /\ treeOp = NoCodecOp
    /\ kvOp = NoCodecOp
    /\ refs = <<>>
    /\ findOp = NoFindOp
    /\ ignoreOp = NoIgnoreOp
    /\ worktree = NoWorktree
    /\ cmdOp = NoCmdOp

Next == ObjectWrite \/ ObjectHash \/ ObjectRead

\* The object store: writes, hashes and reads from an empty store.
Spec == Init /\ [][Next]_vars

\* Reads of a loose object found in the store.
InitLoose ==
    /\ \E raw \in PlantRaws : objects = (PlantSha :> LooseFile(raw, TRUE))
    /\ objdirs = {ObjDir(PlantSha)}
    /\ storeOp = NoOp
    /\ nops = 0
    /\ indexFile = NoFile
    /\ indexOp = NoIndexOp
    /\ treeOp = NoCodecOp
    /\ kvOp = NoCodecOp
    /\ refs = <<>>
    /\ findOp = NoFindOp
    /\ ignoreOp = NoIgnoreOp
    /\ worktree = NoWorktree
    /\ cmdOp = NoCmdOp

NextLoose == ObjectRead
SpecLoose == InitLoose /\ [][NextLoose]_vars

\* The tree codec.
NextTree == TreeSerialize \/ TreeReserialize
SpecTree == Init /\ [][NextTree]_vars

\* The KVLM codec.
NextKvlm == KvlmSerialize \/ KvlmReserialize
SpecKvlm == Init /\ [][NextKvlm]_vars

\* The index codec.
NextIndex == IndexWrite \/ IndexRead
SpecIndex == Init /\ [][NextIndex]_vars

\* Names resolved and found in a store that holds objects and references.
InitFind ==
    /\ objects = FindStore
    /\ objdirs = {ObjDir(sha) : sha \in DOMAIN FindStore}
    /\ storeOp = NoOp
    /\ nops = 0
    /\ indexFile = NoFile
    /\ indexOp = NoIndexOp
    /\ treeOp = NoCodecOp
    /\ kvOp = NoCodecOp
    /\ refs \in RefConfigs
    /\ findOp = NoFindOp
    /\ ignoreOp = NoIgnoreOp
    /\ worktree = NoWorktree
    /\ cmdOp = NoCmdOp

NextFind == ObjectResolve \/ ObjectFind
SpecFind == InitFind /\ [][NextFind]_vars

\* Reads of an index file found in the repository.
InitIndexFile ==
    /\ objects = <<>>
    /\ objdirs = {}
    /\ storeOp = NoOp
    /\ nops = 0
    /\ indexFile \in IndexFiles
    /\ indexOp = NoIndexOp
    /\ treeOp = NoCodecOp
    /\ kvOp = NoCodecOp
    /\ refs = <<>>
    /\ findOp = NoFindOp
    /\ ignoreOp = NoIgnoreOp
    /\ worktree = NoWorktree
    /\ cmdOp = NoCmdOp

NextIndexFile == IndexRead
SpecIndexFile == InitIndexFile /\ [][NextIndexFile]_vars

\* The ignore rules: lines parsed, rule lists and rule sets applied to paths.
NextIgnore == GitignoreParse \/ CheckIgnore1 \/ CheckIgnorePath
SpecIgnore == Init /\ [][NextIgnore]_vars

\* Continuation lines folded and escaped.
NextFold == ContinuationFold \/ ContinuationRefold
SpecFold == Init /\ [][NextFold]_vars

\* The history walk over stores of commits.
InitLog ==
    /\ objects \in {LogStore(g) : g \in LogGraphs}
    /\ objdirs = {ObjDir(sha) : sha \in LogIds}
    /\ storeOp = NoOp
    /\ nops = 0
    /\ indexFile = NoFile
    /\ indexOp = NoIndexOp
    /\ treeOp = NoCodecOp
    /\ kvOp = NoCodecOp
    /\ refs = <<>>
    /\ findOp = NoFindOp
    /\ ignoreOp = NoIgnoreOp
    /\ worktree = NoWorktree
    /\ cmdOp = NoCmdOp

NextLog == LogGraphviz
SpecLog == InitLog /\ [][NextLog]_vars

\* status_head_index in repositories with a HEAD commit.
InitStatusHead ==
    /\ \E h \in Heads :
          /\ objects = StatusStore(h)
          /\ objdirs = {ObjDir(sha) : sha \in DOMAIN StatusStore(h)}
          /\ refs \in StatusRefs(h)
    /\ storeOp = NoOp
    /\ nops = 0
    /\ indexFile = NoFile
    /\ indexOp = NoIndexOp
    /\ treeOp = NoCodecOp
    /\ kvOp = NoCodecOp
    /\ findOp = NoFindOp
    /\ ignoreOp = NoIgnoreOp
    /\ worktree = NoWorktree
    /\ cmdOp = NoCmdOp

NextStatusHead == StatusHeadIndex
SpecStatusHead == InitStatusHead /\ [][NextStatusHead]_vars

\* status_index_worktree in worktrees beside an index file.
InitStatusWork ==
    /\ objects = <<>>
    /\ objdirs = {}
    /\ storeOp = NoOp
    /\ nops = 0
    /\ indexFile \in StatusIndexFiles
    /\ indexOp = NoIndexOp
    /\ treeOp = NoCodecOp
    /\ kvOp = NoCodecOp
    /\ refs = <<>>
    /\ findOp = NoFindOp
    /\ ignoreOp = NoIgnoreOp
    /\ worktree \in Worktrees
    /\ cmdOp = NoCmdOp

NextStatusWork == StatusIndexWorktree
SpecStatusWork == InitStatusWork /\ [][NextStatusWork]_vars

NextMalformed == TreeDeserializeRaw \/ CommitDeserializeRaw
SpecMalformed == Init /\ [][NextMalformed]_vars

(***************************************************************************)
(* The claims.                                                             *)
(***************************************************************************)

\* C1: index_read applied to the file index_write produced for a valid index
\* of version 2 succeeds and returns the same entries, in order, field by field.
C1_IndexRoundTrip ==
    (indexOp.op = "read" /\ indexFile.exists)
        => (indexOp.res.kind = "ok" /\ indexOp.res.index = indexOp.written)

\* The object a store call was given.
OpObject(o) == IF o.op = "write" THEN o.arg ELSE Blob(o.arg[2])

IsWriteCall(o) == o.op = "write" \/ (o.op = "hash" /\ o.arg[1] = S_blob)

\* C2: a store call never overwrites or modifies a loose object file that
\* exists; a file is created only by a write with a handle, at the id of the
\* object written, where no file was; a second write of the same content
\* returns the same id and changes nothing in the store.
C2_WriteOnce ==
    [][ /\ \A p \in DOMAIN objects : p \in DOMAIN objects' /\ objects'[p] = objects[p]
        /\ \A p \in (DOMAIN objects') \ (DOMAIN objects) :
               /\ IsWriteCall(storeOp') /\ storeOp'.repo
               /\ p = object_id(OpObject(storeOp'))
        /\ (/\ nops' = nops + 1
            /\ IsWriteCall(storeOp) /\ IsWriteCall(storeOp')
            /\ storeOp.repo /\ storeOp'.repo
            /\ OpObject(storeOp) = OpObject(storeOp')
            /\ storeOp.res.kind = "ok" /\ storeOp'.res.kind = "ok")
               => (storeOp'.res.val = storeOp.res.val /\ objects' = objects)
      ]_vars

\* A write with a handle returned the id of a file it found at its path and
\* left as it was (the file is not one a successful write makes).
C2_Witness ==
    /\ nops = 2
    /\ storeOp.op = "write" /\ storeOp.repo /\ storeOp.res.kind = "ok"
    /\ storeOp.res.val \in DOMAIN objects
    /\ ~objects[storeOp.res.val].complete

\* C3: after a store write that failed, the hash-derived path holds no
\* partially written file (one a later object_write takes for stored).
C3_AllOrNothing ==
    (IsWriteCall(storeOp) /\ storeOp.repo /\ storeOp.res.kind = "err")
        => LET sha == object_id(OpObject(storeOp))
           IN  PathExists(objects, sha) => objects[sha].complete

\* C4: a write or hash without a handle leaves the store as it was, and
\* returns the id the same call returns with a handle.
C4_PureHashing ==
    [][ /\ (nops' = nops + 1 /\ storeOp'.op \in {"write", "hash"} /\ ~storeOp'.repo)
               => (/\ objects' = objects
                   /\ objdirs' = objdirs
                   /\ IsWriteCall(storeOp') => storeOp'.res.kind = "ok")
        /\ (/\ nops' = nops + 1
            /\ storeOp.op \in {"write", "hash"}
            /\ storeOp'.op = storeOp.op /\ storeOp'.arg = storeOp.arg
            /\ storeOp'.repo # storeOp.repo
            /\ storeOp.res.kind = storeOp'.res.kind)
               => storeOp'.res = storeOp.res
      ]_vars

\* A hash without a handle returned the id of an object that an earlier call
\* with a handle stored.
C4_Witness ==
    /\ nops = 2
    /\ storeOp.op = "hash" /\ ~storeOp.repo /\ storeOp.res.kind = "ok"
    /\ storeOp.res.val \in DOMAIN objects
    /\ objects[storeOp.res.val].complete

\* The header of a decompressed loose object: a type, a space, a decimal
\* length, a NUL.
HeaderDeclares(raw) ==
    /\ \E i \in 1..Len(raw) : raw[i] = SP
    /\ \E i \in 1..Len(raw) : raw[i] = NUL
    /\ Position(raw, 0, SP) < Position(raw, 0, NUL)
    /\ ParseUsize(Slice(raw, Position(raw, 0, SP) + 1, Position(raw, 0, NUL))).ok

DeclaredLen(raw) ==
    ParseUsize(Slice(raw, Position(raw, 0, SP) + 1, Position(raw, 0, NUL))).val

\* The number of bytes after the first NUL.
ActualLen(raw) == Cardinality({i \in 1..Len(raw) : \E j \in 1..(i - 1) : raw[j] = NUL})

HeaderType(raw) == SubSeq(raw, 1, Position(raw, 0, SP))

\* C5: object_read of a well-formed loose object returns an object of the
\* header's type when that is blob, tree, commit or tag, and fails with an
\* unknown-object-type error for any other type.
C5_DispatchByType ==
    (storeOp.op = "read" /\ HeaderDeclares(storeOp.raw)
         /\ DeclaredLen(storeOp.raw) = ActualLen(storeOp.raw))
        => IF HeaderType(storeOp.raw) \in {S_blob, S_tree, S_commit, S_tag}
           THEN storeOp.res.kind = "ok" /\ ObjFmt(storeOp.res.val) = HeaderType(storeOp.raw)
           ELSE storeOp.res.kind = "err" /\ storeOp.res.err = "Unknown object type"

\* C6: object_read fails with an error and returns no object when the length
\* the header declares differs from the number of bytes after the NUL, and
\* does not fail the length check when they are equal.
C6_LengthValidated ==
    (storeOp.op = "read" /\ HeaderDeclares(storeOp.raw))
        => /\ DeclaredLen(storeOp.raw) # ActualLen(storeOp.raw)
                  => (storeOp.res.kind = "err" /\ storeOp.res.val = <<>>)
           /\ DeclaredLen(storeOp.raw) = ActualLen(storeOp.raw)
                  => storeOp.res.err # "Malformed object: bad length"

\* A blob whose header declares a length other than its own was read and the
\* read failed on the length.
C6_Witness ==
    /\ storeOp.op = "read" /\ HeaderDeclares(storeOp.raw)
    /\ HeaderType(storeOp.raw) = S_blob
    /\ DeclaredLen(storeOp.raw) # ActualLen(storeOp.raw)
    /\ storeOp.res.err = "Malformed object: bad length"

\* The canonical sort key of a leaf: its path, with '/' appended when the
\* leaf is a subtree.
IsSubtreeMode(mode) == StartsWith(mode, <<48, 52>>) \/ mode = M_dir5
CanonKey(leaf) == IF IsSubtreeMode(leaf.mode) THEN leaf.path \o <<47>> ELSE leaf.path

CanonicalOrder(leaves) ==
    \A i \in 1..(Len(leaves) - 1) : LexLess(CanonKey(leaves[i]), CanonKey(leaves[i + 1]))

SameLeaves(p, q) ==
    Len(p) = Len(q) /\ {p[i] : i \in 1..Len(p)} = {q[i] : i \in 1..Len(q)}

\* C7: tree_serialize emits the leaves in the order of their canonical keys:
\* the path, with a trailing '/' exactly when the leaf is a subtree.
C7_CanonicalOrder ==
    (treeOp.op = "serialize")
        => \E q \in TreeItemSeqs :
               /\ SameLeaves(q, treeOp.arg)
               /\ CanonicalOrder(q)
               /\ treeOp.res = Ok(TreeWire(q))

\* C8: serializing the tree deserialized from a well-formed payload in
\* canonical order reproduces the payload byte for byte.
C8_TreeRoundTrip ==
    (treeOp.op = "reserialize" /\ CanonicalOrder(treeOp.arg))
        => treeOp.res = Ok(TreeWire(treeOp.arg))

\* C9: kvlm_parse of a well-formed commit payload returns without aborting,
\* and kvlm_serialize of its result is the payload.
C9_KvlmRoundTrip ==
    (kvOp.op = "reserialize" /\ kvOp.arg.blank)
        => (kvOp.mid.kind = "ok" /\ kvOp.res = Ok(KvWire(kvOp.arg)))

\* The headers of a map, in map order, as a payload spells them.
RECURSIVE ExpectValues(_, _)
ExpectValues(key, values) ==
    IF values = <<>> THEN <<>>
    ELSE key \o <<SP>> \o WireValue(values[1]) \o <<LF>> \o ExpectValues(key, Tail(values))

RECURSIVE ExpectHeaders(_)
ExpectHeaders(entries) ==
    IF entries = <<>> THEN <<>>
    ELSE ExpectValues(entries[1].key.k, entries[1].vals) \o ExpectHeaders(Tail(entries))

IsHeaderEntry(e) == e.key.some

MessageOf(kvlm) ==
    IF \E i \in 1..Len(kvlm) : ~kvlm[i].key.some
    THEN kvlm[CHOOSE i \in 1..Len(kvlm) : ~kvlm[i].key.some].vals[1]
    ELSE <<>>

\* C10: kvlm_serialize writes every keyed header, in map order, before the
\* message wherever the message entry stands in the map, each newline of a
\* header value followed by one space, then one blank line, then the message
\* bytes as they are.
C10_SerializeLayout ==
    (kvOp.op = "serialize")
        => kvOp.res = Ok(ExpectHeaders(SelectSeq(kvOp.arg, IsHeaderEntry))
                             \o <<LF>> \o MessageOf(kvOp.arg))

\* A map was serialized whose message entry stands first, before a header
\* with a newline in its value, and whose message holds a newline and a space.
C10_Witness ==
    /\ kvOp.op = "serialize" /\ kvOp.res.kind = "ok"
    /\ Len(kvOp.arg) >= 2
    /\ kvOp.arg[1] = [key |-> NoKey, vals |-> <<Msg_indent>>]
    /\ \E i \in 2..Len(kvOp.arg) : kvOp.arg[i].vals = <<V_gap>>

\* C11: deserializing a tree payload whose leaf lacks its space or its NUL or
\* has a truncated hash, or a commit payload whose header lacks its space or
\* newline, gives the caller an error: no object (no empty tree) and no abort.
C11_MalformedReported ==
    /\ (treeOp.op = "deserialize" /\ treeOp.arg.defect # "none")
           => treeOp.res.kind = "err"
    /\ (kvOp.op = "deserialize" /\ kvOp.arg.defect # "none")
           => kvOp.res.kind = "err"

\* The candidates each rule of name resolution gives, from the references
\* and the object files.
RefId(rs, path) ==
    IF path \in DOMAIN rs
    THEN IF rs[path].sym
         THEN IF rs[path].to \in DOMAIN rs THEN <<rs[rs[path].to].to>> ELSE <<>>
         ELSE <<rs[path].to>>
    ELSE <<>>

RuleHead(name) == IF name = S_HEAD THEN RefId(refs, S_HEAD) ELSE <<>>

RuleHashIds(name) ==
    IF Len(name) \in 4..40 /\ \A i \in 1..Len(name) : IsHexDigit(name[i])
    THEN {sha \in DOMAIN objects : SubSeq(sha, 1, Len(name)) = ToLowercase(name)}
    ELSE {}

RuleTag(name) == RefId(refs, S_refs_tags \o name)
RuleBranch(name) == RefId(refs, S_refs_heads \o name)

\* C12: object_resolve returns the HEAD resolution (name HEAD), then every
\* loose object whose id starts with the lower-cased name (4 to 40 hex
\* digits), then refs/tags/<name>, then refs/heads/<name>: every rule is
\* tried whatever an earlier rule matched.
C12_ResolveAccumulates ==
    (findOp.op = "resolve")
        => \E scan \in Orders(RuleHashIds(findOp.name)) :
               findOp.cands = RuleHead(findOp.name) \o scan
                                  \o RuleTag(findOp.name) \o RuleBranch(findOp.name)

SeqRange(q) == {q[i] : i \in 1..Len(q)}

\* C13: object_find fails with a no-such-reference error when the name has
\* no candidate, fails with an ambiguous-reference error that names every
\* candidate when the candidates hold more than one id, and reads an object
\* or returns an id only when there is exactly one candidate.
C13_ExactlyOneCandidate ==
    (findOp.op = "find")
        => /\ findOp.cands = <<>>
                  => (findOp.res.kind = "err" /\ findOp.res.err = "No such reference")
           /\ Cardinality(SeqRange(findOp.cands)) > 1
                  => /\ findOp.res.kind = "err"
                     /\ findOp.res.err = "Ambiguous reference"
                     /\ SeqRange(findOp.res.val) = SeqRange(findOp.cands)
           /\ (findOp.reads # <<>> \/ (findOp.res.kind = "ok" /\ findOp.res.val.some))
                  => Len(findOp.cands) = 1

\* A find of the four hex digits that two stored objects share failed as
\* ambiguous and named both.
C13_Witness ==
    /\ findOp.op = "find" /\ findOp.name = N_abcd
    /\ findOp.res.kind = "err" /\ findOp.res.err = "Ambiguous reference"
    /\ SeqRange(findOp.res.val) = {IdBlob, IdTree}

\* What a stored object is, read from its file: its type, and the id its
\* first header (object of a tag, tree of a commit) holds.
StoredType(sha) == HeaderType(objects[sha].data)

StoredPayload(sha) ==
    SubSeq(objects[sha].data, Position(objects[sha].data, 0, NUL) + 2, Len(objects[sha].data))

StoredTarget(sha) ==
    LET p == StoredPayload(sha)
    IN  SubSeq(p, Position(p, 0, SP) + 2, Position(p, 0, LF))

\* The id peeling is to give: the object itself when it has the wanted type,
\* else (when following) what the tag's object or, for a wanted tree, the
\* commit's tree peels to, else none.
RECURSIVE ExpectPeel(_, _, _)
ExpectPeel(sha, fmt, follow) ==
    IF StoredType(sha) = fmt THEN SomeId(sha)
    ELSE IF ~follow THEN NoId
    ELSE IF StoredType(sha) = S_tag THEN ExpectPeel(StoredTarget(sha), fmt, follow)
    ELSE IF StoredType(sha) = S_commit /\ fmt = S_tree
    THEN ExpectPeel(StoredTarget(sha), fmt, follow)
    ELSE NoId

\* C14: with a wanted type, object_find returns the id the single candidate
\* peels to: itself when of the wanted type, through a tag's object field,
\* from a commit to its tree when a tree is wanted, and None when follow is
\* false and the type differs or when no peel rule applies.
C14_Peeling ==
    (findOp.op = "find" /\ findOp.fmt.some /\ Len(findOp.cands) = 1
         /\ findOp.cands[1] \in DOMAIN objects)
        => findOp.res = Ok(ExpectPeel(findOp.cands[1], findOp.fmt.k, findOp.follow))

\* What an index file of one entry holds, read from its bytes.
FileMagicOk(b) == Len(b) >= 12 /\ SubSeq(b, 1, 4) = <<68, 73, 82, 67>>
FileVersion(b) == b[8] + 256 * b[7]
FileCount(b) == b[12] + 256 * b[11]
FileTruncated(b) == FileCount(b) >= 1 /\ Len(b) < 12 + 62
FileReserved(b) == b[12 + 26] + 256 * b[12 + 25]
FileModeType(b) == b[12 + 27] \div 16
FileExtended(b) == (b[12 + 61] \div 64) % 2 = 1
FileNameLen(b) == b[12 + 62] + 256 * (b[12 + 61] % 16)
FileNameTerminated(b) ==
    Len(b) >= 12 + 62 + FileNameLen(b) + 1 /\ b[12 + 62 + FileNameLen(b) + 1] = 0

\* An index file of one entry with none of the defects index_read is to
\* report, whatever its mode type.
FileSound(b) ==
    /\ FileMagicOk(b) /\ FileVersion(b) = 2 /\ FileCount(b) = 1
    /\ ~FileTruncated(b) /\ FileReserved(b) = 0 /\ FileExtended(b)
    /\ FileNameTerminated(b)

\* C15: index_read accepts an entry exactly when its mode type is 0b1000,
\* 0b1010 or 0b1110: a sound index file is read when its entry has one of
\* the three types and rejected with an error otherwise.
C15_ModeTypeDecides ==
    (indexOp.op = "read" /\ indexFile.exists /\ FileSound(indexFile.bytes))
        => IF FileModeType(indexFile.bytes) \in {8, 10, 14}
           THEN indexOp.res.kind = "ok"
           ELSE indexOp.res.kind = "err"

\* C16: index_read fails with an error and returns no index on a bad magic,
\* a version other than 2, a truncated entry, a non-zero reserved field, a
\* clear extended flag or a name without NUL, and reads an index file with
\* none of these defects.
C16_FormatErrors ==
    (indexOp.op = "read" /\ indexFile.exists /\ Len(indexFile.bytes) >= 12
         /\ FileCount(indexFile.bytes) = 1)
        => IF FileSound(indexFile.bytes)
           THEN FileModeType(indexFile.bytes) \in {8, 10, 14} => indexOp.res.kind = "ok"
           ELSE indexOp.res.kind = "err" /\ indexOp.res.index = NoIndex

\* C17: index_read of a repository without an index file returns the empty
\* index of version 2 and leaves the index file absent and the store as it was.
C17_AbsentIndex ==
    [][(indexOp'.op = "read" /\ indexOp.op # "read" /\ ~indexFile.exists)
           => /\ indexOp'.res.kind = "ok"
              /\ indexOp'.res.index = [version |-> 2, entries |-> <<>>]
              /\ indexFile' = indexFile
              /\ objects' = objects /\ objdirs' = objdirs
      ]_vars

\* index_read ran where no index file was and returned an index.
C17_Witness ==
    /\ indexOp.op = "read" /\ ~indexFile.exists
    /\ indexOp.res.kind = "ok" /\ indexOp.res.index.entries = <<>>

\* The ancestor directories of a relative path, as names: the prefixes that
\* end before a separator, and the root "".
Ancestors(path) == {SubSeq(path, 1, i - 1) : i \in {j \in 1..Len(path) : path[j] = 47}} \cup {<<>>}

\* The indices of the rules of a list that apply to a path.
Matching(rules, path) == {i \in 1..Len(rules) : rule_matches(rules[i], path)}

\* The flag of the last rule of a list that applies to a path.
LastFlag(rules, path) ==
    rules[CHOOSE i \in Matching(rules, path) : \A j \in Matching(rules, path) : j <= i].include

\* The scopes of a rule set that are ancestors of the path and have a rule
\* that applies to it.
MatchingScopes(ignore, path) ==
    {d \in Ancestors(path) \cap DOMAIN ignore.scoped : Matching(ignore.scoped[d], path) # {}}

\* C18: check_ignore_path of a relative path returns the decision of the
\* nearest ancestor directory whose scoped rule list has a rule matching the
\* full path, and the decision of the absolute list (not ignored when it has
\* no match) only when no scoped list matched.
C18_ScopePrecedence ==
    (ignoreOp.op = "path" /\ ~is_absolute(ignoreOp.path))
        => LET ignore == ignoreOp.ignore
               path == ignoreOp.path
               scopes == MatchingScopes(ignore, path)
           IN  /\ ignoreOp.res.kind = "ok"
               /\ IF scopes # {}
                  THEN LET nearest == CHOOSE d \in scopes : \A e \in scopes : Len(e) <= Len(d)
                       IN  ignoreOp.res.val = LastFlag(ignore.scoped[nearest], path)
                  ELSE IF Matching(ignore.absolute, path) # {}
                  THEN ignoreOp.res.val = LastFlag(ignore.absolute, path)
                  ELSE ignoreOp.res.val = FALSE

\* check_ignore_path returned the decision of the rules of directory d for
\* a path under d/e, against the opposite decision of the root rules and of
\* the absolute rules.
C18_Witness ==
    /\ ignoreOp.op = "path"
    /\ ignoreOp.path = <<100, 47, 101, 47, 97>>
    /\ DOMAIN ignoreOp.ignore.scoped = {<<>>, <<100>>}
    /\ Matching(ignoreOp.ignore.scoped[<<100>>], ignoreOp.path) # {}
    /\ Matching(ignoreOp.ignore.scoped[<<>>], ignoreOp.path) # {}
    /\ Matching(ignoreOp.ignore.absolute, ignoreOp.path) # {}
    /\ LastFlag(ignoreOp.ignore.scoped[<<>>], ignoreOp.path) = TRUE
    /\ LastFlag(ignoreOp.ignore.absolute, ignoreOp.path) = TRUE
    /\ ignoreOp.res = Ok(FALSE)

\* C19: check_ignore1 returns the include flag of the last rule in list
\* order whose pattern matches the path and no decision when no rule
\* matches; a path that no rule of a rule set matches is not ignored.
C19_LastMatchWins ==
    /\ ignoreOp.op = "check1"
          => IF Matching(ignoreOp.rules, ignoreOp.path) = {}
             THEN ignoreOp.res = NoDecision
             ELSE ignoreOp.res = Decision(LastFlag(ignoreOp.rules, ignoreOp.path))
    /\ (/\ ignoreOp.op = "path" /\ ~is_absolute(ignoreOp.path)
        /\ Matching(ignoreOp.ignore.absolute, ignoreOp.path) = {}
        /\ \A d \in DOMAIN ignoreOp.ignore.scoped :
              Matching(ignoreOp.ignore.scoped[d], ignoreOp.path) = {})
          => ignoreOp.res = Ok(FALSE)

\* check_ignore1 ran on a list of two rules that both match the path, the
\* first positive and the second negated, and returned the second's flag.
C19_Witness ==
    /\ ignoreOp.op = "check1"
    /\ Len(ignoreOp.rules) = 2
    /\ Matching(ignoreOp.rules, ignoreOp.path) = {1, 2}
    /\ ignoreOp.rules[1].include /\ ~ignoreOp.rules[2].include
    /\ ignoreOp.res = Decision(FALSE)

\* The lines that produce a rule: not empty after trimming, not a comment.
IsRuleLine(line) == Trim(line) # <<>> /\ Trim(line)[1] # HASH

\* The rule a line produces.
LineRule(line) ==
    LET t == Trim(line)
    IN  IF t[1] = BANG THEN Rule(Tail(t), FALSE)
        ELSE IF t[1] = BACKSLASH THEN Rule(Tail(t), TRUE)
        ELSE Rule(t, TRUE)

\* C20: gitignore_parse gives no rule for a line that is empty after
\* trimming or begins with '#', a negated rule for the rest of a line with a
\* leading '!', a positive rule for the rest of a line with a leading
\* backslash, a positive rule for the whole trimmed line otherwise, and the
\* rules in the order of their lines.
C20_LineParsing ==
    ignoreOp.op = "parse"
        => LET kept == SelectSeq(ignoreOp.lines, IsRuleLine)
           IN  ignoreOp.res = [i \in 1..Len(kept) |-> LineRule(kept[i])]

\* gitignore_parse ran on a comment line followed by an escaped '!' line
\* and returned the one positive rule for the pattern "!a".
C20_Witness ==
    /\ ignoreOp.op = "parse"
    /\ ignoreOp.lines = <<<<35, 97>>, <<92, 33, 97>>>>
    /\ ignoreOp.res = <<Rule(<<33, 97>>, TRUE)>>

\* The positions of the spaces that directly follow a newline.
FoldedAway(w) == {i \in 2..Len(w) : w[i] = SP /\ w[i - 1] = LF}

\* C24: continuation_line_optmize removes exactly the one space that directly
\* follows each newline and leaves every other byte as it is and where it
\* was, and it gives back every header value from the value kvlm_serialize
\* emits for it.
C24_FoldInvertsEscape ==
    /\ kvOp.op = "fold"
          => LET w == kvOp.arg
                 out == kvOp.res.val
             IN  /\ Len(out) = Len(w) - Cardinality(FoldedAway(w))
                 /\ \A i \in (1..Len(w)) \ FoldedAway(w) :
                        out[i - Cardinality({j \in FoldedAway(w) : j < i})] = w[i]
    /\ kvOp.op = "refold"
          => /\ Len(kvOp.mid.val) = Len(kvOp.arg)
                    + Cardinality({i \in 1..Len(kvOp.arg) : kvOp.arg[i] = LF})
             /\ kvOp.res.val = kvOp.arg

\* A value with a newline followed by a space of its own was escaped to a
\* newline and two spaces and folded back to itself.
C24_Witness ==
    /\ kvOp.op = "refold"
    /\ kvOp.arg = <<97, LF, SP, 97>>
    /\ kvOp.mid.val = <<97, LF, SP, SP, 97>>
    /\ kvOp.res.val = kvOp.arg

\* C25: the running offset is a multiple of 8 after index_write has emitted
\* an entry and after index_read has consumed one, the low 12 flag bits of a
\* short name hold its length, and index_read consumes as many bytes of a
\* file as index_write emitted.
C25_PaddingAgrees ==
    /\ (indexOp.op = "write" /\ indexOp.res.kind = "ok" /\ indexOp.written.entries # <<>>)
          => /\ indexOp.res.idx % 8 = 0
             /\ indexOp.res.idx = Len(indexFile.bytes)
             /\ BitAnd(FromBE16(Slice(indexFile.bytes, 72, 74)), NameLenSentinel)
                    = Len(indexOp.written.entries[1].name)
    /\ (indexOp.op = "read" /\ indexOp.written # NoIndex)
          => /\ indexOp.res.kind = "ok"
             /\ indexOp.res.idx = Len(indexFile.bytes)
             /\ indexOp.written.entries # <<>> => indexOp.res.idx % 8 = 0

\* The commit graph whose object files the store holds.
GraphOf(objs) == CHOOSE g \in LogGraphs : LogStore(g) = objs

\* The commits reachable from a set of commits in at most n steps.
RECURSIVE ReachableIn(_, _, _)
ReachableIn(g, S, n) ==
    IF n = 0 THEN S
    ELSE ReachableIn(g, S \cup UNION {SeqRange(g[c]) : c \in S}, n - 1)

\* C26: log_graphviz returns, emits one node line for each commit reachable
\* from the start commit, and reads no commit twice, whether commits are
\* reachable through several parents or parent links form a cycle.
C26_WalkVisitsOnce ==
    cmdOp.op = "log"
        => LET reachable == ReachableIn(GraphOf(objects), {cmdOp.start}, Cardinality(LogIds))
               nodes == SelectSeq(cmdOp.out, LAMBDA l : l.line = "node")
           IN  /\ cmdOp.res.kind = "ok"
               /\ {nodes[i].sha : i \in 1..Len(nodes)} = reachable
               /\ Len(nodes) = Cardinality(reachable)
               /\ \A i, j \in 1..Len(cmdOp.reads) : cmdOp.reads[i] = cmdOp.reads[j] => i = j

\* The tree of the HEAD commit in the store, and that tree flattened to a
\* dictionary from paths to ids.
HeadIn(objs) == CHOOSE h \in Heads : StatusStore(h) = objs
FlatHead(h) == h.dict @@ (IF h.sub THEN S_d_ctxt :> Sid1 ELSE <<>>)

\* C21: where HEAD names a commit, status_head_index ends well and reports
\* exactly: "modified" for the index entries whose name is in the flattened
\* HEAD tree with another id, "added" for the entries whose name is not in
\* it, "deleted" for the paths of the HEAD tree with no index entry, each
\* once; with HEAD {a.txt: s1} and the index {a.txt: s1, b.txt: s2} the one
\* report is "added b.txt".
C21_HeadIndexClassifies ==
    (cmdOp.op = "head_index" /\ refs # RefsFresh) =>
        LET head == FlatHead(HeadIn(objects))
            entries == cmdOp.index.entries
            names == {entries[i].name : i \in 1..Len(entries)}
            expected ==
                {Report("modified", entries[i].name) : i \in
                    {j \in 1..Len(entries) : /\ entries[j].name \in DOMAIN head
                                             /\ head[entries[j].name] # entries[j].sha}}
                \cup {Report("added", n) : n \in names \ DOMAIN head}
                \cup {Report("deleted", p) : p \in DOMAIN head \ names}
        IN  /\ cmdOp.res.kind = "ok"
            /\ SeqRange(cmdOp.out) = expected
            /\ Len(cmdOp.out) = Cardinality(expected)
            /\ (/\ head = (S_atxt :> Sid1)
                /\ entries = <<StatusEntry(S_atxt, Sid1), StatusEntry(S_btxt, Sid2)>>)
                   => cmdOp.out = <<Report("added", S_btxt)>>

\* C22: status_index_worktree ends well, and for every index entry: it
\* reports "deleted" exactly when the file is absent; when the file is there
\* with the creation and modification times of the entry it reports nothing
\* and does not hash the file; it reports "modified" exactly when the file
\* is there, a time differs and the blob id of its content differs from the
\* id of the entry.
C22_IndexWorktreeClassifies ==
    cmdOp.op = "index_worktree" =>
        /\ cmdOp.res.kind = "ok"
        /\ \A i \in 1..Len(cmdOp.index.entries) :
               LET entry == cmdOp.index.entries[i]
                   there == entry.name \in DOMAIN worktree.files
                   file == worktree.files[entry.name]
                   same == there /\ file.ctime = entry.ctime /\ file.mtime = entry.mtime
                   reports == {r \in SeqRange(cmdOp.out) : r.name = entry.name}
               IN  /\ Report("deleted", entry.name) \in reports <=> ~there
                   /\ same => reports = {} /\ entry.name \notin cmdOp.hashed
                   /\ Report("modified", entry.name) \in reports
                          <=> (/\ there
                               /\ ~same
                               /\ Sha1Hex(object_store_bytes(S_blob, file.data)) # entry.sha)

\* C23: status_index_worktree ends well and lists as untracked exactly the
\* regular files of the worktree outside the control directory whose path
\* is no index entry's name and which the ignore rules do not match.
C23_UntrackedListed ==
    cmdOp.op = "index_worktree" =>
        LET entries == cmdOp.index.entries
            names == {entries[i].name : i \in 1..Len(entries)}
            rules == [absolute |-> IF worktree.exclude.exists
                                   THEN gitignore_parse(Lines(worktree.exclude.bytes))
                                   ELSE <<>>,
                      scoped |-> <<>>]
        IN  /\ cmdOp.res.kind = "ok"
            /\ SeqRange(cmdOp.untracked) =
                   {p \in DOMAIN worktree.files :
                       /\ worktree.files[p].kind = "file"
                       /\ ~StartsWith(p, S_dot_git \o <<47>>)
                       /\ p \notin names
                       /\ ~check_ignore_path(rules, p).val}

====
